---- MODULE Spec2Model ----
(***************************************************************************)
(* Autopilot control loop of ads-automation-api-testing:                   *)
(*   workers/on_off_adsets_worker.py  (fetch_adsets, get_cpp_from_insights)*)
(*   workers/update_status.py         (process_adsets,                     *)
(*                                     process_scheduled_campaigns,        *)
(*                                     update_facebook_status_with_retry)  *)
(*                                                                         *)
(* Strings are sequences of one-character strings.  Money amounts are      *)
(* integers (currency units); a threshold is an integer number of          *)
(* 1/ThrDen units, and a metric spend/checkouts is kept as the pair        *)
(* (n, d), so every comparison is exact.                                   *)
(***************************************************************************)
EXTENDS Integers, Sequences, FiniteSets, TLC

\* ------------------------------------------------------------------ bounds
NRuns == 2
NCampaigns == 2
NAdsets == 2
MaxSpend == 2
MaxCheckouts == 2
MaxThr == 3

PageSize == 1

\* ------------------------------------------------------- program constants
max_retries == 2
ThrDen == 2

\* --------------------------------------------------------------- optionals
None == <<>>
Some(x) == <<x>>
IsSome(o) == Len(o) = 1
Val(o) == o[1]

\* ----------------------------------------------------------------- strings
UpperAlpha ==
  <<"A","B","C","D","E","F","G","H","I","J","K","L","M",
    "N","O","P","Q","R","S","T","U","V","W","X","Y","Z">>

LowerAlpha ==
  <<"a","b","c","d","e","f","g","h","i","j","k","l","m",
    "n","o","p","q","r","s","t","u","v","w","x","y","z">>

DigitChars == {"0","1","2","3","4","5","6","7","8","9"}

IsUpperChar(c) == \E i \in 1..26 : UpperAlpha[i] = c

IsLowerChar(c) == \E i \in 1..26 : LowerAlpha[i] = c

LowerChar(c) ==
  IF IsUpperChar(c) THEN LowerAlpha[CHOOSE i \in 1..26 : UpperAlpha[i] = c] ELSE c

UpperChar(c) ==
  IF IsLowerChar(c) THEN UpperAlpha[CHOOSE i \in 1..26 : LowerAlpha[i] = c] ELSE c

IsAlnum(c) == IsUpperChar(c) \/ IsLowerChar(c) \/ c \in DigitChars

str_lower(s) == [i \in 1..Len(s) |-> LowerChar(s[i])]

str_upper(s) == [i \in 1..Len(s) |-> UpperChar(s[i])]

\* Python's `a in b` on strings
IsSubstring(a, b) ==
  \E i \in 0..(Len(b) - Len(a)) : SubSeq(b, i + 1, i + Len(a)) = a

\* update_status.py: re.sub(r'[^a-zA-Z0-9]', '', code.lower())
normalize_campaign_code(code) == SelectSeq(str_lower(code), IsAlnum)

is_campaign_code_match(campaign_name, campaign_code) ==
  IsSubstring(normalize_campaign_code(campaign_code),
              normalize_campaign_code(campaign_name))

\* ----------------------------------------------------------------- metrics
\* A metric is Inf (float('inf')) or the exact quotient n/d with d > 0.
Inf == [k |-> "inf", n |-> 0, d |-> 1]
Num(n, d) == [k |-> "num", n |-> n, d |-> d]
IsInf(c) == c.k = "inf"
IsZero(c) == c.k = "num" /\ c.n = 0

\* c < t/ThrDen  and  c >= t/ThrDen   (Inf is above every threshold)
CppLt(c, t) == c.k = "num" /\ c.n * ThrDen < t * c.d
CppGe(c, t) == ~CppLt(c, t)

checkout_actions ==
  { "omni_initiated_checkout", "initiate_checkout",
    "offsite_conversion.fb_pixel_initiate_checkout", "checkout_initiated",
    "onsite_conversion.initiate_checkout", "onsite_web_initiate_checkout" }

SeqMax(s) == CHOOSE m \in {s[i] : i \in 1..Len(s)} : \A i \in 1..Len(s) : s[i] <= m

IsCheckout(a) == a.action_type \in checkout_actions

initiate_checkout_value_Sum(actions) ==
  LET checkout_values == SelectSeq(actions, IsCheckout)
      Sum[i \in 0..Len(checkout_values)] ==
        IF i = 0 THEN 0 ELSE Sum[i - 1] + checkout_values[i].value
  IN Sum[Len(checkout_values)]

\* lines 137-148: the values of the recognised actions, then their maximum
initiate_checkout_value(actions) ==
  LET checkout_values == SelectSeq(actions, IsCheckout)
  IN IF Len(checkout_values) > 0
       THEN SeqMax([i \in 1..Len(checkout_values) |-> checkout_values[i].value])
       ELSE 0

ItemCpp_ZeroWithoutCheckouts(item) ==
  LET v == initiate_checkout_value(item.actions)
  IN IF v > 0 THEN Num(item.spend, v) ELSE Num(0, 1)

ItemCpp_DivideByAtLeastOne(item) ==
  LET v == initiate_checkout_value(item.actions)
  IN IF v > 0 THEN Num(item.spend, v) ELSE Num(item.spend, 1)

\* lines 150-155: the metric of one insights item
ItemCpp(item) ==
  LET v == initiate_checkout_value(item.actions)
  IN IF v > 0 THEN Num(item.spend, v) ELSE Inf

\* ------------------------------------------------------------------- state
VARIABLES
  lockStore,   \* Redis: lock key -> owner token, or NoToken
  pending,     \* Redis: pending_schedules:<id> list, per raw account id
  platStatus,  \* the platform: entity id -> status
  writes,      \* history: task -> the status update calls (POST) it issued
  readback,    \* history: entity id -> result of the last verification read
               \*          made after the latest update call, or NoRead
  insights,    \* the platform: entity id -> its insights item, or None
  task,        \* run -> state of its process_adsets task
  camp,        \* state of the process_scheduled_campaigns task
  catalog,     \* the platform: the campaigns it lists, with their ad sets
  fetch,       \* run -> state of its fetch_adsets task
  platform,    \* how the platform answers status updates and reads in this
               \* behaviour: "any", "reliable", "stuck" or "down"
  loc          \* state of the update_locations_by_campaign_components task

vars == <<lockStore, pending, platStatus, writes, readback, insights, task, camp,
          catalog, fetch, platform, loc>>

Runs == 1..NRuns

\* the tasks that issue status updates: the process_adsets task of each run,
\* and process_scheduled_campaigns as number 0
RunCampaigns == 0
Writers == Runs \cup {RunCampaigns}

ACTIVE == "ACTIVE"
PAUSED == "PAUSED"
Statuses == {ACTIVE, PAUSED, "ARCHIVED"}
NoRead == "<no read>"
ReadFailed == "<None>"

ON == <<"O","N">>
OFF == <<"O","F","F">>

\* ------------------------------------------- process_adsets: the decision
\* update_status.py lines 240-284.  `carried` is the value that the local
\* variable target_status holds from an earlier iteration (None: unbound).
\* kind "continue": the loop continues with the next ad set (no target);
\* kind "target": target_status is `target`;
\* kind "raise": UnboundLocalError at line 289.
Continue == [kind |-> "continue", target |-> ""]
Target(s) == [kind |-> "target", target |-> s]
Raise == [kind |-> "raise", target |-> ""]

AdsetDecision_NoZeroRule(adset_cpp, current_status, on_off, cpp_metric, carried) ==
  IF IsInf(adset_cpp) \/ adset_cpp.k = "none"
    THEN IF current_status # PAUSED THEN Target(PAUSED) ELSE Continue
  ELSE IF on_off = OFF
    THEN IF CppGe(adset_cpp, cpp_metric) THEN Target(PAUSED) ELSE Continue
  ELSE IF on_off = ON
    THEN IF CppLt(adset_cpp, cpp_metric) THEN Target(ACTIVE) ELSE Target(PAUSED)
  ELSE IF IsSome(carried) THEN Target(Val(carried)) ELSE Raise

AdsetDecision_StrictBoundary(adset_cpp, current_status, on_off, cpp_metric, carried) ==
  IF IsInf(adset_cpp) \/ adset_cpp.k = "none"
    THEN IF current_status # PAUSED THEN Target(PAUSED) ELSE Continue
  ELSE IF IsZero(adset_cpp)
    THEN Continue
  ELSE IF on_off = OFF
    THEN IF ~CppLt(adset_cpp, cpp_metric + 1) THEN Target(PAUSED) ELSE Continue
  ELSE IF on_off = ON
    THEN IF CppLt(adset_cpp, cpp_metric) THEN Target(ACTIVE) ELSE Target(PAUSED)
  ELSE IF IsSome(carried) THEN Target(Val(carried)) ELSE Raise

AdsetDecision_StaleTarget(adset_cpp, current_status, on_off, cpp_metric, carried) ==
  IF IsInf(adset_cpp) \/ adset_cpp.k = "none"
    THEN IF current_status # PAUSED THEN Target(PAUSED) ELSE Continue
  ELSE IF IsZero(adset_cpp)
    THEN Continue
  ELSE IF on_off = OFF
    THEN IF CppGe(adset_cpp, cpp_metric) THEN Target(PAUSED)
         ELSE IF IsSome(carried) THEN Target(Val(carried)) ELSE Continue
  ELSE IF on_off = ON
    THEN IF CppLt(adset_cpp, cpp_metric) THEN Target(ACTIVE) ELSE Target(PAUSED)
  ELSE IF IsSome(carried) THEN Target(Val(carried)) ELSE Raise

AdsetDecision_OffActivates(adset_cpp, current_status, on_off, cpp_metric, carried) ==
  IF IsInf(adset_cpp) \/ adset_cpp.k = "none"
    THEN IF current_status # PAUSED THEN Target(PAUSED) ELSE Continue
  ELSE IF IsZero(adset_cpp)
    THEN Continue
  ELSE IF on_off = OFF
    THEN IF CppGe(adset_cpp, cpp_metric) THEN Target(PAUSED) ELSE Target(ACTIVE)
  ELSE IF on_off = ON
    THEN IF CppLt(adset_cpp, cpp_metric) THEN Target(ACTIVE) ELSE Target(PAUSED)
  ELSE IF IsSome(carried) THEN Target(Val(carried)) ELSE Raise

AdsetDecision(adset_cpp, current_status, on_off, cpp_metric, carried) ==
  IF IsInf(adset_cpp) \/ adset_cpp.k = "none"
    THEN IF current_status # PAUSED THEN Target(PAUSED) ELSE Continue
  ELSE IF IsZero(adset_cpp)
    THEN Continue
  ELSE IF on_off = OFF
    THEN IF CppGe(adset_cpp, cpp_metric) THEN Target(PAUSED) ELSE Continue
  ELSE IF on_off = ON
    THEN IF CppLt(adset_cpp, cpp_metric) THEN Target(ACTIVE) ELSE Target(PAUSED)
  ELSE IF IsSome(carried) THEN Target(Val(carried)) ELSE Raise

\* ---------------------------------------------- process_adsets: the loop
\* Position of the ad set visited after position (ci, ai) of the snapshot:
\* campaigns whose name does not match the code are skipped (line 223).
RECURSIVE NextPos(_, _, _, _)
NextPos(campaigns_data, campaign_code, ci, ai) ==
  IF ci > Len(campaigns_data) THEN None
  ELSE IF ~is_campaign_code_match(campaigns_data[ci].campaign_name, campaign_code)
    THEN NextPos(campaigns_data, campaign_code, ci + 1, 0)
  ELSE IF ai + 1 <= Len(campaigns_data[ci].ADSETS)
    THEN Some(<<ci, ai + 1>>)
  ELSE NextPos(campaigns_data, campaign_code, ci + 1, 0)

IdleTask ==
  [ pc |-> "idle", schedule_data |-> None, campaigns_data |-> <<>>,
    dispatched_data |-> <<>>,
    cpp_metric |-> 0, on_off |-> <<>>, ci |-> 1, ai |-> 0,
    target_status |-> None, attempt |-> 0, sleeps |-> <<>>,
    total_processed |-> 0, total_updated |-> 0, result |-> "" ]

\* float(x): every numeric form converts
float(m) == m.v

\* lines 204-208: parameters of the schedule; a missing key raises KeyError,
\* which the handler of line 329 turns into the error result.
PA_Start(r) ==
  /\ task[r].pc = "queued"
  /\ LET sd == Val(task[r].schedule_data)
     IN IF ~IsSome(sd.campaign_code) \/ ~IsSome(sd.on_off)
          THEN task' = [task EXCEPT ![r].pc = "done", ![r].result = "error"]
          ELSE task' = [task EXCEPT
                 ![r].pc = "loop",
                 ![r].cpp_metric =
                    IF IsSome(sd.cpp_metric) THEN float(Val(sd.cpp_metric)) ELSE 0,
                 ![r].on_off = str_upper(Val(sd.on_off)),
                 ![r].ci = 1, ![r].ai = 0]
  /\ UNCHANGED <<lockStore, pending, platStatus, writes, readback, insights,
                 camp, catalog, fetch, platform, loc>>

CurCode(r) == Val(Val(task[r].schedule_data).campaign_code)

CurAdset(r) == task[r].campaigns_data[task[r].ci].ADSETS[task[r].ai]

\* lines 219-319, one iteration for the next ad set up to the point where it
\* either continues or calls update_facebook_status_with_retry.
PA_Decide(r) ==
  /\ task[r].pc = "loop"
  /\ LET t == task[r]
         np == NextPos(t.campaigns_data, CurCode(r), t.ci, t.ai)
     IN /\ IsSome(np)
        /\ LET ci == Val(np)[1]
               ai == Val(np)[2]
               adset == t.campaigns_data[ci].ADSETS[ai]
               dec == AdsetDecision(adset.CPP, adset.STATUS, t.on_off,
                                    t.cpp_metric, t.target_status)
               at == [t EXCEPT !.ci = ci, !.ai = ai,
                               !.total_processed = @ + 1]
           IN task' = [task EXCEPT ![r] =
                IF dec.kind = "raise"
                  THEN [at EXCEPT !.pc = "done", !.result = "error"]
                ELSE IF dec.kind = "continue"
                  THEN at
                ELSE IF adset.STATUS # dec.target
                  THEN [at EXCEPT !.target_status = Some(dec.target),
                                  !.pc = "update", !.attempt = 0,
                                  !.sleeps = <<>>]
                ELSE [at EXCEPT !.target_status = Some(dec.target)]]
  /\ UNCHANGED <<lockStore, pending, platStatus, writes, readback, insights,
                 camp, catalog, fetch, platform, loc>>

\* lines 321-327: the final summary
PA_Finish(r) ==
  /\ task[r].pc = "loop"
  /\ ~IsSome(NextPos(task[r].campaigns_data, CurCode(r), task[r].ci, task[r].ai))
  /\ task' = [task EXCEPT ![r].pc = "done", ![r].result = "summary"]
  /\ UNCHANGED <<lockStore, pending, platStatus, writes, readback, insights,
                 camp, catalog, fetch, platform, loc>>

\* The answers of the platform.  An update call is rejected, or accepted;
\* an accepted call may or may not change the entity.  A status read returns
\* the status, or fails (fetch_entity_status then returns None).
UpdateOutcomes ==
  IF platform = "reliable" THEN {<<TRUE, TRUE>>}
  ELSE IF platform = "stuck" THEN {<<TRUE, FALSE>>}
  ELSE IF platform = "down" THEN {<<FALSE, FALSE>>}
  ELSE {<<FALSE, FALSE>>, <<TRUE, FALSE>>, <<TRUE, TRUE>>}

ReadOutcomes(status) ==
  IF platform \in {"reliable", "stuck"} THEN {status} ELSE {status, ReadFailed}

\* What update_facebook_status_with_retry does after a failed attempt
\* (lines 90-101): back off when attempts remain, else report failure, and
\* process_adsets (lines 310-314) goes on with the next ad set.
AfterFailedAttempt_OneRetry(t) ==
  IF t.attempt < max_retries - 1
    THEN [t EXCEPT !.pc = "backoff"]
    ELSE [t EXCEPT !.pc = "loop"]

AfterFailedAttempt_Abort(t) ==
  IF t.attempt < max_retries
    THEN [t EXCEPT !.pc = "backoff"]
    ELSE [t EXCEPT !.pc = "done", !.result = "error"]

AfterFailedAttempt(t) ==
  IF t.attempt < max_retries
    THEN [t EXCEPT !.pc = "backoff"]
    ELSE [t EXCEPT !.pc = "loop"]

\* update_facebook_status (lines 37-55) called at line 68.  The platform
\* either rejects the call, or accepts it; an accepted call may or may not
\* change the entity.
PA_Update(r) ==
  /\ task[r].pc = "update"
  /\ LET t == task[r]
         id == CurAdset(r).id
         new_status == Val(t.target_status)
     IN \E o \in UpdateOutcomes :
        LET ok == o[1]
            sticks == o[2]
        IN
          /\ writes' = [writes EXCEPT ![r] =
                          Append(@, [id |-> id, status |-> new_status, ok |-> ok])]
          /\ readback' = [readback EXCEPT ![id] = NoRead]
          /\ platStatus' = IF sticks THEN [platStatus EXCEPT ![id] = new_status]
                                     ELSE platStatus
          /\ task' = [task EXCEPT ![r] =
                        IF ok THEN [t EXCEPT !.pc = "verify"]
                              ELSE AfterFailedAttempt(t)]
  /\ UNCHANGED <<lockStore, pending, insights, camp, catalog, fetch, platform, loc>>

\* the status recorded whatever the read-back says
PA_Verify_RecordsAlways(r) ==
  /\ task[r].pc = "verify"
  /\ LET t == task[r]
         id == CurAdset(r).id
         new_status == Val(t.target_status)
     IN \E current_status \in ReadOutcomes(platStatus[id]) :
          /\ readback' = [readback EXCEPT ![id] = current_status]
          /\ task' = [task EXCEPT ![r] =
               IF current_status = new_status
                 THEN [t EXCEPT !.pc = "loop",
                         !.campaigns_data[t.ci].ADSETS[t.ai].STATUS = new_status,
                         !.total_updated = @ + 1]
                 ELSE [AfterFailedAttempt(t) EXCEPT
                         !.campaigns_data[t.ci].ADSETS[t.ai].STATUS = new_status]]
  /\ UNCHANGED <<lockStore, pending, platStatus, writes, insights, camp,
                 catalog, fetch, platform, loc>>

\* fetch_entity_status (lines 21-35) called at line 73, and lines 75-88;
\* on success process_adsets records the status (lines 303-305).
PA_Verify(r) ==
  /\ task[r].pc = "verify"
  /\ LET t == task[r]
         id == CurAdset(r).id
         new_status == Val(t.target_status)
     IN \E current_status \in ReadOutcomes(platStatus[id]) :
          /\ readback' = [readback EXCEPT ![id] = current_status]
          /\ task' = [task EXCEPT ![r] =
               IF current_status = new_status
                 THEN [t EXCEPT !.pc = "loop",
                         !.campaigns_data[t.ci].ADSETS[t.ai].STATUS = new_status,
                         !.total_updated = @ + 1]
                 ELSE AfterFailedAttempt(t)]
  /\ UNCHANGED <<lockStore, pending, platStatus, writes, insights, camp,
                 catalog, fetch, platform, loc>>

Pow2_Times(n) == 2 * n

RECURSIVE Pow2(_)
Pow2(n) == IF n = 0 THEN 1 ELSE 2 * Pow2(n - 1)

\* lines 91-94: time.sleep(2 ** attempt), then the next attempt
PA_Backoff(r) ==
  /\ task[r].pc = "backoff"
  /\ task' = [task EXCEPT ![r].pc = "update",
                          ![r].sleeps = Append(@, Pow2(task[r].attempt)),
                          ![r].attempt = @ + 1]
  /\ UNCHANGED <<lockStore, pending, platStatus, writes, readback, insights,
                 camp, catalog, fetch, platform, loc>>

\* ---------------------------------------------------------------- the world
CampaignIds == {<<c>> : c \in 1..NCampaigns}
AdsetIds == {<<c, k>> : c \in 1..NCampaigns, k \in 1..NAdsets}
Entities == CampaignIds \cup AdsetIds

CodeSO1 == <<"s","o","-","1">>
NameMatching == <<"P","g"," ","-"," ","S","O","1">>
NameOther == <<"P","g"," ","-"," ","X","2">>
CampaignNames == {NameMatching, NameOther}

ActionTypes == {"initiate_checkout", "omni_initiated_checkout", "link_click"}
Actions == [action_type : ActionTypes, value : 0..MaxCheckouts]

\* the sequences over S of length at most n
RECURSIVE SeqsUpTo(_, _)
SeqsUpTo(S, n) ==
  IF n = 0 THEN {<<>>}
  ELSE LET shorter == SeqsUpTo(S, n - 1)
       IN shorter \cup {Append(q, x) : q \in shorter, x \in S}

\* an insights item of an entity (lines 113-126), or None when the insights
\* pages hold no item for it
InsightRows(maxActions) ==
  {None} \cup {Some([spend |-> sp, actions |-> al]) :
                 sp \in 0..MaxSpend, al \in SeqsUpTo(Actions, maxActions)}

Modes == {ON, OFF, <<"o","n">>, <<"O","f","f">>, <<"A","U","T","O">>}

\* cpp_metric of a schedule: a JSON number or its decimal text, v/ThrDen
Thresholds(forms) ==
  {None} \cup {Some([form |-> f, v |-> v]) : f \in forms, v \in 0..MaxThr}

Schedule(code, mode, thr) ==
  [campaign_code |-> code, on_off |-> mode, cpp_metric |-> thr,
   watch |-> Some("AdSets")]

\* ------------------------------------- fetch_adsets: building the snapshot
\* get_cpp_from_insights, lines 113-155, over the items `rows` (id -> item
\* or None): the mapping id -> metric for the ids that have an item
CppData(rows, ids) ==
  [id \in {i \in ids : IsSome(rows[i])} |-> ItemCpp(Val(rows[id]))]

\* dict.get(id, float('inf'))
GetCpp(cpp_data, id) == IF id \in DOMAIN cpp_data THEN cpp_data[id] ELSE Inf

\* lines 340-378: campaign_data of the matching campaigns; a campaign of the
\* listing is [id, name, status, adsets], an ad set of it [id, status]
BuildCampaignData(matching_campaigns, cpp_campaign_data, cpp_adset_data) ==
  [i \in 1..Len(matching_campaigns) |->
     LET campaign == matching_campaigns[i]
     IN [ id |-> campaign.id,
          campaign_name |-> campaign.name,
          STATUS |-> campaign.status,
          CPP |-> GetCpp(cpp_campaign_data, campaign.id),
          ADSETS |-> [j \in 1..Len(campaign.adsets) |->
                        [ id |-> campaign.adsets[j].id,
                          STATUS |-> campaign.adsets[j].status,
                          CPP |-> GetCpp(cpp_adset_data, campaign.adsets[j].id) ]] ]]

\* ------------------------------------------------------------ fetch_adsets
\* the schedules that triggers carry
TriggerSchedules ==
  { Schedule(Some(CodeSO1), Some(ON), Some([form |-> "number", v |-> ThrDen])),
    Schedule(None, Some(ON), None) }

\* The ad_account_id argument as the caller wrote it; the lock key and the
\* queue key are built from it as written (lines 226-228).
RawIds == {"1", "act_1", "2"}
InvalidId == ""
LockKeys == RawIds \cup {InvalidId}

\* str(ad_account_id).replace('act_', '') (line 244)
clean_ad_account_id(ad_account_id) ==
  IF ad_account_id = "act_1" THEN "1" ELSE ad_account_id

NoToken == 0

IdleFetch ==
  [ pc |-> "idle", ad_account_id |-> InvalidId, matched_schedule |-> None,
    token |-> NoToken, level |-> "", page |-> 1,
    cpp_campaign_data |-> <<>>, cpp_adset_data |-> <<>>,
    all_campaigns |-> <<>>, messages |-> <<>>, result |-> "" ]

\* append_redis_message_adsets(user_id, ...) for the user of the run: the
\* kinds of the messages appended so far, in order; one entry stands for the
\* messages of one call site in one pass
Say(f, ms) == [f EXCEPT !.messages = @ \o ms]

\* the chunks of at most PageSize items of a sequence, at least one page
RECURSIVE PagesOf(_)
PagesOf(items) ==
  IF Len(items) <= PageSize THEN <<items>>
  ELSE <<SubSeq(items, 1, PageSize)>> \o PagesOf(SubSeq(items, PageSize + 1, Len(items)))

RECURSIVE Flatten(_)
Flatten(ss) == IF ss = <<>> THEN <<>> ELSE Head(ss) \o Flatten(Tail(ss))

\* the campaigns of an account, in listing order
CampaignsOf(account) == SelectSeq(catalog, LAMBDA c : c.account = account)

\* the entity ids of a level of an account, in listing order
LevelIds(account, level) ==
  LET cs == CampaignsOf(account)
  IN IF level = "campaign"
       THEN [i \in 1..Len(cs) |-> cs[i].id]
       ELSE Flatten([i \in 1..Len(cs) |->
                       [j \in 1..Len(cs[i].adsets) |-> cs[i].adsets[j].id]])

\* the pages of the insights endpoint for a level: the entities with an item
InsightsPages(account, level) ==
  PagesOf(SelectSeq(LevelIds(account, level), LAMBDA id : IsSome(insights[id])))

\* the pages of the campaigns endpoint, with the statuses of the moment
ListingPages(account) ==
  LET cs == CampaignsOf(account)
  IN PagesOf([i \in 1..Len(cs) |->
       [ id |-> cs[i].id, name |-> cs[i].name, status |-> platStatus[cs[i].id],
         adsets |-> [j \in 1..Len(cs[i].adsets) |->
                       [ id |-> cs[i].adsets[j].id,
                         status |-> platStatus[cs[i].adsets[j].id] ]] ]])

\* lines 113-155 for the items of one page, merged into cpp_data
MergePage(cpp_data, ids) ==
  [id \in DOMAIN cpp_data \cup {ids[i] : i \in 1..Len(ids)} |->
     IF \E i \in 1..Len(ids) : ids[i] = id
       THEN ItemCpp(Val(insights[id]))
       ELSE cpp_data[id]]

\* lines 226-250: a trigger with an account id and a schedule.  An invalid
\* id returns at once; otherwise the lock is tried without blocking
\* (SET key token NX with a 300 s expiry).
\* The start message (line 231) comes first; the date-range message (line
\* 261) follows the acquisition; contention appends no message (lines
\* 246-249 only log).
F_Begin_NoValidation(r) ==
  /\ fetch[r].pc = "idle"
  /\ \E id \in RawIds \cup {InvalidId}, sched \in TriggerSchedules :
       LET f == [fetch[r] EXCEPT !.ad_account_id = id,
                                 !.matched_schedule = Some(sched),
                                 !.messages = Append(@, "start")]
       IN IF lockStore[id] = NoToken
            THEN /\ lockStore' = [lockStore EXCEPT ![id] = r]
                 /\ fetch' = [fetch EXCEPT ![r] =
                               [f EXCEPT !.pc = "verify", !.token = r,
                                         !.messages = Append(@, "date range")]]
            ELSE /\ fetch' = [fetch EXCEPT ![r] = [f EXCEPT !.pc = "enqueue"]]
                 /\ UNCHANGED lockStore
  /\ UNCHANGED <<pending, platStatus, writes, readback, insights, task, camp,
                 catalog, platform, loc>>

F_Begin(r) ==
  /\ fetch[r].pc = "idle"
  /\ \E id \in RawIds \cup {InvalidId}, sched \in TriggerSchedules :
       LET f == [fetch[r] EXCEPT !.ad_account_id = id,
                                 !.matched_schedule = Some(sched),
                                 !.messages = Append(@, "start")]
       IN IF id = InvalidId
            THEN /\ fetch' = [fetch EXCEPT ![r] =
                               [f EXCEPT !.pc = "done", !.result = "invalid id",
                                         !.messages = Append(@, "invalid id")]]
                 /\ UNCHANGED lockStore
          ELSE IF lockStore[id] = NoToken
            THEN /\ lockStore' = [lockStore EXCEPT ![id] = r]
                 /\ fetch' = [fetch EXCEPT ![r] =
                               [f EXCEPT !.pc = "verify", !.token = r,
                                         !.messages = Append(@, "date range")]]
            ELSE /\ fetch' = [fetch EXCEPT ![r] = [f EXCEPT !.pc = "enqueue"]]
                 /\ UNCHANGED lockStore
  /\ UNCHANGED <<pending, platStatus, writes, readback, insights, task, camp,
                 catalog, platform, loc>>

F_Enqueue_Front(r) ==
  /\ fetch[r].pc = "enqueue"
  /\ pending' = [pending EXCEPT ![fetch[r].ad_account_id] =
                   <<Val(fetch[r].matched_schedule)>> \o @]
  /\ fetch' = [fetch EXCEPT ![r].pc = "done", ![r].result = "deferred"]
  /\ UNCHANGED <<lockStore, platStatus, writes, readback, insights, task, camp,
                 catalog, platform, loc>>

\* lines 247-249: rpush to the pending list, and the deferred result
F_Enqueue(r) ==
  /\ fetch[r].pc = "enqueue"
  /\ pending' = [pending EXCEPT ![fetch[r].ad_account_id] =
                   Append(@, Val(fetch[r].matched_schedule))]
  /\ fetch' = [fetch EXCEPT ![r].pc = "done", ![r].result = "deferred"]
  /\ UNCHANGED <<lockStore, platStatus, writes, readback, insights, task, camp,
                 catalog, platform, loc>>

F_VerifyAccount_GoesOn(r) ==
  /\ fetch[r].pc = "verify"
  /\ \E ok \in BOOLEAN :
       fetch' = [fetch EXCEPT ![r] =
         IF ok THEN [@ EXCEPT !.pc = "insights", !.level = "campaign", !.page = 1,
                              !.messages = Append(@, "account ok")]
               ELSE [@ EXCEPT !.pc = "insights", !.level = "campaign", !.page = 1,
                              !.result = "account error",
                              !.messages = Append(@, "account error")]]
  /\ UNCHANGED <<lockStore, pending, platStatus, writes, readback, insights,
                 task, camp, catalog, platform, loc>>

\* lines 266-280: the account check
F_VerifyAccount(r) ==
  /\ fetch[r].pc = "verify"
  /\ \E ok \in BOOLEAN :
       fetch' = [fetch EXCEPT ![r] =
         IF ok THEN [@ EXCEPT !.pc = "insights", !.level = "campaign", !.page = 1,
                              !.messages = Append(@, "account ok")]
               ELSE [@ EXCEPT !.pc = "release", !.result = "account error",
                              !.messages = Append(@, "account error")]]
  /\ UNCHANGED <<lockStore, pending, platStatus, writes, readback, insights,
                 task, camp, catalog, platform, loc>>

\* get_cpp_from_insights (lines 95-167), one request: an error ends the
\* loop with the mapping gathered so far; a page is merged and the cursor
\* followed.  After the campaign level comes the ad-set level (lines
\* 283-288), then the campaign listing.  Each call announces itself (lines
\* 82-90), reports every request, failed (line 103) or answered (lines
\* 107-111, 157-162), and ends with its summary (lines 169-202).
AfterInsights(f) ==
  IF f.level = "campaign"
    THEN [f EXCEPT !.level = "adset", !.page = 1,
                   !.messages = Append(@, "cpp summary")]
    ELSE [f EXCEPT !.pc = "list", !.page = 1,
                   !.messages = Append(@, "cpp summary")]

F_Insights_DiscardOnError(r) ==
  /\ fetch[r].pc = "insights"
  /\ LET f == Say(fetch[r], IF fetch[r].page = 1
                              THEN <<"fetching insights", "api url">> ELSE <<>>)
         pages == InsightsPages(clean_ad_account_id(f.ad_account_id), f.level)
     IN \E ok \in BOOLEAN :
          fetch' = [fetch EXCEPT ![r] =
            IF ~ok THEN AfterInsights(Say(IF f.level = "campaign"
                                            THEN [f EXCEPT !.cpp_campaign_data = <<>>]
                                            ELSE [f EXCEPT !.cpp_adset_data = <<>>],
                                          <<"request report">>))
            ELSE LET merged ==
                       IF f.level = "campaign"
                         THEN [f EXCEPT !.cpp_campaign_data =
                                          MergePage(@, pages[f.page])]
                         ELSE [f EXCEPT !.cpp_adset_data =
                                          MergePage(@, pages[f.page])]
                 IN IF f.page < Len(pages)
                      THEN [Say(merged, <<"request report">>) EXCEPT !.page = @ + 1]
                      ELSE AfterInsights(Say(merged, <<"request report">>))]
  /\ UNCHANGED <<lockStore, pending, platStatus, writes, readback, insights,
                 task, camp, catalog, platform, loc>>

F_Insights(r) ==
  /\ fetch[r].pc = "insights"
  /\ LET f == Say(fetch[r], IF fetch[r].page = 1
                              THEN <<"fetching insights", "api url">> ELSE <<>>)
         pages == InsightsPages(clean_ad_account_id(f.ad_account_id), f.level)
     IN \E ok \in BOOLEAN :
          fetch' = [fetch EXCEPT ![r] =
            IF ~ok THEN AfterInsights(Say(f, <<"request report">>))
            ELSE LET merged ==
                       IF f.level = "campaign"
                         THEN [f EXCEPT !.cpp_campaign_data =
                                          MergePage(@, pages[f.page])]
                         ELSE [f EXCEPT !.cpp_adset_data =
                                          MergePage(@, pages[f.page])]
                 IN IF f.page < Len(pages)
                      THEN [Say(merged, <<"request report">>) EXCEPT !.page = @ + 1]
                      ELSE AfterInsights(Say(merged, <<"request report">>))]
  /\ UNCHANGED <<lockStore, pending, platStatus, writes, readback, insights,
                 task, camp, catalog, platform, loc>>

\* lines 297-317, one request of the campaign listing
F_List(r) ==
  /\ fetch[r].pc = "list"
  /\ LET f == fetch[r]
         pages == ListingPages(clean_ad_account_id(f.ad_account_id))
     IN \E ok \in BOOLEAN :
          fetch' = [fetch EXCEPT ![r] =
            IF ~ok THEN [f EXCEPT !.pc = "release", !.result = "listing error",
                                  !.messages = Append(@, "listing error")]
            ELSE LET got == [f EXCEPT !.all_campaigns = @ \o pages[f.page]]
                 IN IF f.page < Len(pages)
                      THEN [got EXCEPT !.page = @ + 1]
                      ELSE [got EXCEPT !.pc = "build"]]
  /\ UNCHANGED <<lockStore, pending, platStatus, writes, readback, insights,
                 task, camp, catalog, platform, loc>>

\* on_off_adsets_worker.py lines 207-220: strip(' -'), then as above
StripChars == {" ", "-"}

RECURSIVE LStrip(_)
LStrip(s) == IF s # <<>> /\ Head(s) \in StripChars THEN LStrip(Tail(s)) ELSE s

RECURSIVE RStrip(_)
RStrip(s) ==
  IF s # <<>> /\ s[Len(s)] \in StripChars THEN RStrip(SubSeq(s, 1, Len(s) - 1)) ELSE s

fetch_normalize_campaign_code(code) ==
  SelectSeq(str_lower(RStrip(LStrip(code))), IsAlnum)

fetch_is_campaign_code_match(campaign_name, campaign_code) ==
  IsSubstring(fetch_normalize_campaign_code(campaign_code),
              fetch_normalize_campaign_code(campaign_name))

F_Build_DispatchEmpty(r) ==
  /\ fetch[r].pc = "build"
  /\ LET f == fetch[r]
         sched == Val(f.matched_schedule)
     IN IF ~IsSome(sched.campaign_code) /\ f.all_campaigns # <<>>
          THEN /\ fetch' = [fetch EXCEPT ![r] =
                             [f EXCEPT !.pc = "release", !.result = "exception",
                                       !.messages = Append(@, "exception")]]
               /\ UNCHANGED task
          ELSE LET campaign_code == Val(sched.campaign_code)
                   matching_campaigns ==
                     SelectSeq(f.all_campaigns,
                       LAMBDA c : fetch_is_campaign_code_match(c.name, campaign_code))
                   campaign_data ==
                     BuildCampaignData(matching_campaigns,
                                       f.cpp_campaign_data, f.cpp_adset_data)
               IN /\ fetch' = [fetch EXCEPT ![r] =
                         [f EXCEPT !.pc = "release", !.result = "fetched",
                                   !.messages = @ \o <<"found", "campaigns">>]]
                  /\ task' = [task EXCEPT ![r] =
                         [IdleTask EXCEPT
                            !.pc = "queued",
                            !.schedule_data = f.matched_schedule,
                            !.campaigns_data = campaign_data,
                            !.dispatched_data = campaign_data]]
  /\ UNCHANGED <<lockStore, pending, platStatus, writes, readback, insights,
                 camp, catalog, platform, loc>>

\* lines 319-402: the filter by campaign code, the snapshot, and the
\* dispatch of process_adsets (apply_async: the task is queued, it runs
\* when a worker takes it).  A schedule without campaign_code gives None to
\* is_campaign_code_match, which raises when a campaign is tested; the
\* handler of line 397 returns the error.
F_Build(r) ==
  /\ fetch[r].pc = "build"
  /\ LET f == fetch[r]
         sched == Val(f.matched_schedule)
     IN IF ~IsSome(sched.campaign_code) /\ f.all_campaigns # <<>>
          THEN /\ fetch' = [fetch EXCEPT ![r] =
                             [f EXCEPT !.pc = "release", !.result = "exception",
                                       !.messages = Append(@, "exception")]]
               /\ UNCHANGED task
          ELSE LET campaign_code == Val(sched.campaign_code)
                   matching_campaigns ==
                     SelectSeq(f.all_campaigns,
                       LAMBDA c : fetch_is_campaign_code_match(c.name, campaign_code))
                   campaign_data ==
                     BuildCampaignData(matching_campaigns,
                                       f.cpp_campaign_data, f.cpp_adset_data)
               IN IF Len(matching_campaigns) = 0
                    THEN /\ fetch' = [fetch EXCEPT ![r] =
                                [f EXCEPT !.pc = "release", !.result = "no match",
                                          !.messages = @ \o <<"found", "no match">>]]
                         /\ UNCHANGED task
                    ELSE /\ fetch' = [fetch EXCEPT ![r] =
                                [f EXCEPT !.pc = "release", !.result = "fetched",
                                          !.messages = @ \o <<"found", "campaigns">>]]
                         /\ task' = [task EXCEPT ![r] =
                                [IdleTask EXCEPT
                                   !.pc = "queued",
                                   !.schedule_data = f.matched_schedule,
                                   !.campaigns_data = campaign_data,
                                   !.dispatched_data = campaign_data]]
  /\ UNCHANGED <<lockStore, pending, platStatus, writes, readback, insights,
                 camp, catalog, platform, loc>>

\* lines 404-406: lock.release() deletes the key when it still holds this
\* run's token; otherwise it raises LockNotOwnedError and the key stays
ReleaseLock_Never(store, key, token) == store

\* a release that deletes the key whatever token it holds
ReleaseLock_Unconditional(store, key, token) == [store EXCEPT ![key] = NoToken]

ReleaseLock(store, key, token) ==
  IF store[key] = token THEN [store EXCEPT ![key] = NoToken] ELSE store

F_Release(r) ==
  /\ fetch[r].pc = "release"
  /\ lockStore' = ReleaseLock(lockStore, fetch[r].ad_account_id, fetch[r].token)
  /\ fetch' = [fetch EXCEPT ![r].pc = "done", ![r].token = NoToken,
                 ![r].result = IF lockStore[fetch[r].ad_account_id] = fetch[r].token
                                 THEN @ ELSE "LockNotOwnedError"]
  /\ UNCHANGED <<pending, platStatus, writes, readback, insights, task, camp,
                 catalog, platform, loc>>

\* line 227, timeout=300: Redis drops the key 300 s after it was set,
\* whatever the run that set it is doing (the pagination loops of lines
\* 95-167 and 298-317 have no bound in time)
LockExpire(k) ==
  /\ lockStore[k] # NoToken
  /\ lockStore' = [lockStore EXCEPT ![k] = NoToken]
  /\ UNCHANGED <<pending, platStatus, writes, readback, insights, task, camp,
                 catalog, fetch, platform, loc>>

\* ------------------------------------------- process_scheduled_campaigns
IdleCamp ==
  [ pc |-> "idle", schedule_data |-> None, entry |-> None,
    campaign_data |-> <<>>, cpp_metric |-> 0, on_off |-> <<>>, i |-> 0,
    update_success |-> FALSE, result |-> "" ]

\* int(x) of line 137: a number is truncated; the text of a whole number
\* converts, the text of a number with a fractional part raises ValueError
IntOk(m) == m.form = "number" \/ m.v % ThrDen = 0
int(m) == (m.v \div ThrDen) * ThrDen

\* lines 135-151.  An exception raised before campaign_entry is bound
\* (a missing key, int() of a decimal text) reaches the handler of line 191,
\* whose own use of campaign_entry (line 193) or watch (line 192) raises
\* again: the task ends with the exception.
PSC_Start ==
  /\ camp.pc = "queued"
  /\ LET sd == Val(camp.schedule_data)
     IN IF \/ ~IsSome(sd.campaign_code) \/ ~IsSome(sd.watch) \/ ~IsSome(sd.on_off)
           \/ (IsSome(sd.cpp_metric) /\ ~IntOk(Val(sd.cpp_metric)))
          THEN camp' = [camp EXCEPT !.pc = "done", !.result = "raised"]
        ELSE IF ~IsSome(camp.entry)
          THEN camp' = [camp EXCEPT !.pc = "done", !.result = "no campaign data"]
        ELSE IF Val(camp.entry).matched_campaign_data = <<>>
          THEN camp' = [camp EXCEPT !.pc = "done", !.result = "no matched data"]
        ELSE camp' = [camp EXCEPT
                 !.pc = IF Val(sd.watch) = "Campaigns" THEN "loop" ELSE "finish",
                 !.cpp_metric =
                    IF IsSome(sd.cpp_metric) THEN int(Val(sd.cpp_metric)) ELSE 0,
                 !.on_off = Val(sd.on_off),
                 !.campaign_data = Val(camp.entry).matched_campaign_data,
                 !.i = 0]
  /\ UNCHANGED <<lockStore, pending, platStatus, writes, readback, insights,
                 task, catalog, fetch, platform, loc>>

\* lines 160-168: the target of a campaign, or Continue
CampaignDecision(campaign_cpp, on_off, cpp_metric) ==
  IF on_off = ON /\ CppLt(campaign_cpp, cpp_metric) THEN Target(ACTIVE)
  ELSE IF on_off = OFF /\ CppGe(campaign_cpp, cpp_metric) THEN Target(PAUSED)
  ELSE Continue

\* lines 155-176, one campaign: the decision, then update_facebook_status
\* (lines 37-55) when the status differs, and the new STATUS when the call
\* succeeded.

PSC_Campaign ==
  /\ camp.pc = "loop"
  /\ camp.i < Len(camp.campaign_data)
  /\ LET i == camp.i + 1
         campaign_info == camp.campaign_data[i]
         dec == CampaignDecision(campaign_info.CPP, camp.on_off, camp.cpp_metric)
     IN IF dec.kind = "target" /\ campaign_info.STATUS # dec.target
          THEN \E o \in UpdateOutcomes :
               LET ok == o[1]
                   sticks == o[2]
               IN
                 /\ writes' = [writes EXCEPT ![RunCampaigns] =
                        Append(@, [id |-> campaign_info.id, status |-> dec.target,
                                   ok |-> ok])]
                 /\ readback' = [readback EXCEPT ![campaign_info.id] = NoRead]
                 /\ platStatus' = IF sticks
                                    THEN [platStatus EXCEPT ![campaign_info.id] = dec.target]
                                    ELSE platStatus
                 /\ camp' = IF ok
                              THEN [camp EXCEPT !.i = i,
                                                !.campaign_data[i].STATUS = dec.target,
                                                !.update_success = TRUE]
                              ELSE [camp EXCEPT !.i = i]
          ELSE /\ camp' = [camp EXCEPT !.i = i]
               /\ UNCHANGED <<writes, readback, platStatus>>
  /\ UNCHANGED <<lockStore, pending, insights, task, catalog, fetch, platform, loc>>

PSC_LoopEnd ==
  /\ camp.pc = "loop"
  /\ camp.i = Len(camp.campaign_data)
  /\ camp' = [camp EXCEPT !.pc = "finish"]
  /\ UNCHANGED <<lockStore, pending, platStatus, writes, readback, insights,
                 task, catalog, fetch, platform, loc>>

\* lines 178-189: the snapshot and the Success status are committed when a
\* status was updated
PSC_Finish ==
  /\ camp.pc = "finish"
  /\ camp' = [camp EXCEPT
        !.pc = "done", !.result = "processed",
        !.entry = IF camp.update_success
                    THEN Some([matched_campaign_data |-> camp.campaign_data,
                               last_check_status |-> "Success"])
                    ELSE @]
  /\ UNCHANGED <<lockStore, pending, platStatus, writes, readback, insights,
                 task, catalog, fetch, platform, loc>>

\* ------------------------------------------------ edit_location_worker.py
\* str.strip(): the whitespace at both ends of a string
Whitespace == {" ", "\t"}

RECURSIVE str_lstrip(_)
str_lstrip(s) == IF s # <<>> /\ Head(s) \in Whitespace THEN str_lstrip(Tail(s)) ELSE s

RECURSIVE str_rstrip(_)
str_rstrip(s) ==
  IF s # <<>> /\ s[Len(s)] \in Whitespace
    THEN str_rstrip(SubSeq(s, 1, Len(s) - 1)) ELSE s

str_strip(s) == str_rstrip(str_lstrip(s))

\* str.split(sep) for a separator of one character
RECURSIVE str_split(_, _)
str_split(s, sep) ==
  IF \E i \in 1..Len(s) : s[i] = sep
    THEN LET i == CHOOSE k \in 1..Len(s) :
                    s[k] = sep /\ \A j \in 1..(k - 1) : s[j] # sep
         IN <<SubSeq(s, 1, i - 1)>> \o str_split(SubSeq(s, i + 1, Len(s)), sep)
    ELSE <<s>>

\* edit_budget_worker.py lines 25-31: lower(), strip(), then every run of
\* whitespace becomes one blank
RECURSIVE CollapseWhitespace(_)
CollapseWhitespace(s) ==
  IF s = <<>> THEN <<>>
  ELSE IF Head(s) \in Whitespace
    THEN <<" ">> \o CollapseWhitespace(str_lstrip(s))
  ELSE <<Head(s)>> \o CollapseWhitespace(Tail(s))

normalize_name(name) == CollapseWhitespace(str_strip(str_lower(name)))

\* Python's `x in xs` on a list
InList(x, xs) == \E i \in 1..Len(xs) : xs[i] = x

\* lines 50-62.  The empty string stands for every falsy argument (None, "").
parse_campaign_name_flexible(campaign_name, expected_page_name, expected_item_name, expected_campaign_code) ==
  IF campaign_name = <<>>
    THEN [page_name_found |-> FALSE, item_name_found |-> FALSE,
          campaign_code_found |-> FALSE]
    ELSE LET split == str_split(campaign_name, "-")
             parts == [k \in 1..Len(split) |-> str_lower(str_strip(split[k]))]
         IN [page_name_found |->
               IF expected_page_name # <<>>
                 THEN InList(str_lower(expected_page_name), parts) ELSE FALSE,
             item_name_found |->
               IF expected_item_name # <<>>
                 THEN InList(str_lower(expected_item_name), parts) ELSE FALSE,
             campaign_code_found |->
               IF expected_campaign_code # <<>>
                 THEN InList(str_lower(expected_campaign_code), parts) ELSE FALSE]

\* sum([page_match, item_match, code_match])
MatchScore(parsed) ==
  (IF parsed.page_name_found THEN 1 ELSE 0)
  + (IF parsed.item_name_found THEN 1 ELSE 0)
  + (IF parsed.campaign_code_found THEN 1 ELSE 0)

\* the scan with `>=` at line 110: the latest candidate wins a tie
RECURSIVE ScanCampaigns_LastWins(_, _, _, _, _, _)
ScanCampaigns_LastWins(data, i, page_name, item_name, campaign_code, best) ==
  IF i > Len(data)
    THEN [campaign_id |-> None, scanned |-> Len(data), best_match |-> best.at]
    ELSE LET parsed == parse_campaign_name_flexible(data[i].name, page_name,
                                                    item_name, campaign_code)
             match_score == MatchScore(parsed)
             better == IF match_score >= best.score /\ match_score > 0
                         THEN [score |-> match_score, at |-> Some(i)] ELSE best
         IN IF parsed.page_name_found /\ parsed.item_name_found
                 /\ parsed.campaign_code_found
              THEN [campaign_id |-> Some(data[i].id), scanned |-> i,
                    best_match |-> better.at]
              ELSE ScanCampaigns_LastWins(data, i + 1, page_name, item_name,
                                          campaign_code, better)

\* lines 99-134: the scan of the listed campaigns from position i on, with
\* the best candidate so far (its score, its position or None).  The result
\* holds the id returned (None for ""), the number of campaigns examined and
\* the candidate of the mismatch diagnostic.
RECURSIVE ScanCampaigns(_, _, _, _, _, _)
ScanCampaigns(data, i, page_name, item_name, campaign_code, best) ==
  IF i > Len(data)
    THEN [campaign_id |-> None, scanned |-> Len(data), best_match |-> best.at]
    ELSE LET parsed == parse_campaign_name_flexible(data[i].name, page_name,
                                                    item_name, campaign_code)
             match_score == MatchScore(parsed)
             better == IF match_score > best.score
                         THEN [score |-> match_score, at |-> Some(i)] ELSE best
         IN IF parsed.page_name_found /\ parsed.item_name_found
                 /\ parsed.campaign_code_found
              THEN [campaign_id |-> Some(data[i].id), scanned |-> i,
                    best_match |-> better.at]
              ELSE ScanCampaigns(data, i + 1, page_name, item_name, campaign_code,
                                 better)

\* lines 73-137, given the answer to the listing request (ok, data)
find_campaign_id_by_components(ok, data, input_page_name, input_item_name, input_campaign_code) ==
  LET page_name == str_strip(str_lower(input_page_name))
      item_name == str_strip(str_lower(input_item_name))
      campaign_code == str_strip(input_campaign_code)
  IN IF ~ok \/ page_name = <<>> \/ item_name = <<>> \/ campaign_code = <<>>
       THEN [campaign_id |-> None, scanned |-> 0, best_match |-> None]
       ELSE ScanCampaigns(data, 1, page_name, item_name, campaign_code,
                          [score |-> 0, at |-> None])

\* the tables PHRegionTable and PHCityTable: name -> key
PHRegionTable == [name \in {"Cebu"} |-> 7]
PHCityTable == [name \in {"Manila"} |-> 11]

\* lines 64-71: the keys of the names that a table holds
get_location_keys(location_names) ==
  [ region_keys |-> {PHRegionTable[n] :
                       n \in {m \in DOMAIN PHRegionTable : InList(m, location_names)}},
    city_keys |-> {PHCityTable[n] :
                     n \in {m \in DOMAIN PHCityTable : InList(m, location_names)}} ]

IdleLoc ==
  [ pc |-> "idle", page_name |-> <<>>, item_name |-> <<>>, campaign_code |-> <<>>,
    new_regions_city |-> <<>>, parsed |-> <<>>, found |-> None,
    campaign_id |-> None, ad_set_ids |-> <<>>, i |-> 0, posts |-> <<>>,
    success_count |-> 0, failure_count |-> 0, messages |-> <<>>, result |-> "" ]

\* what the resolver saw and answered for the first n listed campaigns
ParsedLog(data, n, page_name, item_name, campaign_code) ==
  [k \in 1..n |->
     [ campaign_name |-> data[k].name,
       expected |-> [page_name |-> str_strip(str_lower(page_name)),
                     item_name |-> str_strip(str_lower(item_name)),
                     campaign_code |-> str_strip(campaign_code)],
       result |-> parse_campaign_name_flexible(data[k].name,
                     str_strip(str_lower(page_name)),
                     str_strip(str_lower(item_name)), str_strip(campaign_code)) ]]

\* lines 181-190: the start message and step 1, the search of the campaign
\* (one listing request, which may fail)
L_Find ==
  /\ loc.pc = "queued"
  /\ \E ok \in BOOLEAN :
       LET data == CampaignsOf("1")
           found == find_campaign_id_by_components(ok, data, loc.page_name,
                       loc.item_name, loc.campaign_code)
           seen == [loc EXCEPT
                      !.found = Some(found),
                      !.parsed = ParsedLog(data, found.scanned, loc.page_name,
                                           loc.item_name, loc.campaign_code)]
       IN loc' = IF ~IsSome(found.campaign_id)
                   THEN [seen EXCEPT !.pc = "done",
                                     !.messages = @ \o <<"start", "no exact match">>,
                                     !.result = "no exact match"]
                   ELSE [seen EXCEPT !.pc = "adsets",
                                     !.messages = Append(@, "start"),
                                     !.campaign_id = found.campaign_id]
  /\ UNCHANGED <<lockStore, pending, platStatus, writes, readback, insights,
                 task, camp, catalog, fetch, platform>>

\* find_ad_set_ids_by_campaign_id (lines 139-161): the ad sets of a campaign;
\* a failed request gives the empty list
AdsetIdsOf(campaign_id, ok) ==
  LET cs == SelectSeq(catalog, LAMBDA c : c.id = campaign_id)
  IN IF ok /\ cs # <<>>
       THEN [j \in 1..Len(cs[1].adsets) |-> cs[1].adsets[j].id]
       ELSE <<>>

\* lines 192-199: step 2
L_Adsets ==
  /\ loc.pc = "adsets"
  /\ \E ok \in BOOLEAN :
       LET ad_set_ids == AdsetIdsOf(Val(loc.campaign_id), ok)
       IN loc' = IF ad_set_ids = <<>>
                   THEN [loc EXCEPT !.pc = "done",
                                    !.messages = Append(@, "no ad sets"),
                                    !.result = "no ad sets"]
                   ELSE [loc EXCEPT !.pc = "keys", !.ad_set_ids = ad_set_ids,
                                    !.messages = Append(@, "found ad sets")]
  /\ UNCHANGED <<lockStore, pending, platStatus, writes, readback, insights,
                 task, camp, catalog, fetch, platform>>

\* lines 201-213: step 3, the keys of the location names
L_Keys ==
  /\ loc.pc = "keys"
  /\ LET keys == get_location_keys(loc.new_regions_city)
     IN loc' = IF keys.region_keys = {} /\ keys.city_keys = {}
                 THEN [loc EXCEPT !.pc = "done",
                                  !.messages = Append(@, "no location keys"),
                                  !.result = "no location keys"]
                 ELSE [loc EXCEPT !.pc = "update", !.i = 0]
  /\ UNCHANGED <<lockStore, pending, platStatus, writes, readback, insights,
                 task, camp, catalog, fetch, platform>>

\* lines 218-224 with update_ad_set_targeting (lines 163-174): one ad set
L_Update ==
  /\ loc.pc = "update"
  /\ loc.i < Len(loc.ad_set_ids)
  /\ \E ok \in BOOLEAN :
       loc' = [loc EXCEPT
                 !.i = @ + 1,
                 !.posts = Append(@, [id |-> loc.ad_set_ids[loc.i + 1], ok |-> ok]),
                 !.success_count = IF ok THEN @ + 1 ELSE @,
                 !.failure_count = IF ok THEN @ ELSE @ + 1,
                 !.messages = Append(@, IF ok THEN "updated" ELSE "failed")]
  /\ UNCHANGED <<lockStore, pending, platStatus, writes, readback, insights,
                 task, camp, catalog, fetch, platform>>

\* lines 226-229: the final report
L_Finish ==
  /\ loc.pc = "update"
  /\ loc.i = Len(loc.ad_set_ids)
  /\ loc' = [loc EXCEPT !.pc = "done", !.messages = Append(@, "finished"),
                        !.result = "finished"]
  /\ UNCHANGED <<lockStore, pending, platStatus, writes, readback, insights,
                 task, camp, catalog, fetch, platform>>

\* ------------------------------------------------ process_adsets on its own
\* One process_adsets task on the snapshot that fetch_adsets builds for one
\* campaign with one ad set, for every insights item, status, campaign name
\* and schedule of the bounded sets.
InitAdsets ==
  \E row \in InsightRows(1), st \in Statuses, name \in CampaignNames,
     mode \in Modes, thr \in Thresholds({"number"}) :
    LET rows == [e \in Entities |-> IF e = <<1, 1>> THEN row ELSE None]
        listing == << [account |-> "1", id |-> <<1>>, name |-> name, status |-> ACTIVE,
                       adsets |-> << [id |-> <<1, 1>>, status |-> st] >>] >>
    IN /\ insights = rows
       /\ platStatus = [e \in Entities |-> IF e = <<1, 1>> THEN st ELSE ACTIVE]
       /\ task = [r \in Runs |->
                   IF r = 1
                     THEN [IdleTask EXCEPT
                            !.pc = "queued",
                            !.schedule_data = Some(Schedule(Some(CodeSO1), Some(mode), thr)),
                            !.campaigns_data =
                               BuildCampaignData(listing,
                                  CppData(rows, CampaignIds), CppData(rows, AdsetIds)),
                            !.dispatched_data =
                               BuildCampaignData(listing,
                                  CppData(rows, CampaignIds), CppData(rows, AdsetIds))]
                     ELSE IdleTask]
       /\ catalog = listing
       /\ fetch = [r \in Runs |-> IdleFetch]
       /\ lockStore = [k \in LockKeys |-> NoToken]
       /\ pending = [k \in LockKeys |-> <<>>]
       /\ writes = [r \in Writers |-> <<>>]
       /\ readback = [e \in Entities |-> NoRead]
       /\ platform = "any"
       /\ loc = IdleLoc
       /\ camp = IdleCamp

NextAdsets ==
  \E r \in Runs :
    \/ PA_Start(r)
    \/ PA_Decide(r)
    \/ PA_Finish(r)
    \/ PA_Update(r)
    \/ PA_Verify(r)
    \/ PA_Backoff(r)

SpecAdsets == InitAdsets /\ [][NextAdsets]_vars

\* --------------------------------------- process_scheduled_campaigns alone
\* One task on the stored snapshot of campaign 1 (every insights item and
\* status) and, in some runs, of campaign 2 (no insights item).
WatchLevels == {"Campaigns", "AdSets"}

InitCampaigns ==
  \E row \in InsightRows(1), st \in Statuses, more \in SeqsUpTo({ACTIVE, PAUSED}, 1),
     mode \in Modes, thr \in Thresholds({"number", "text"}), watch \in WatchLevels :
    LET rows == [e \in Entities |-> IF e = <<1>> THEN row ELSE None]
        listing ==
          << [account |-> "1", id |-> <<1>>, name |-> NameMatching, status |-> st,
              adsets |-> <<>>] >>
          \o [j \in 1..Len(more) |->
                [account |-> "1", id |-> <<2>>, name |-> NameMatching, status |-> more[j],
                 adsets |-> <<>>]]
        data == BuildCampaignData(listing, CppData(rows, CampaignIds), <<>>)
    IN /\ insights = rows
       /\ platStatus = [e \in Entities |->
                          IF e = <<1>> THEN st
                          ELSE IF e = <<2>> /\ Len(more) = 1 THEN more[1] ELSE ACTIVE]
       /\ camp = [IdleCamp EXCEPT
                    !.pc = "queued",
                    !.schedule_data =
                       Some([Schedule(Some(CodeSO1), Some(mode), thr)
                               EXCEPT !.watch = Some(watch)]),
                    !.entry = Some([matched_campaign_data |-> data,
                                    last_check_status |-> ""])]
       /\ task = [r \in Runs |-> IdleTask]
       /\ catalog = listing
       /\ fetch = [r \in Runs |-> IdleFetch]
       /\ lockStore = [k \in LockKeys |-> NoToken]
       /\ pending = [k \in LockKeys |-> <<>>]
       /\ writes = [r \in Writers |-> <<>>]
       /\ readback = [e \in Entities |-> NoRead]
       /\ platform = "any"
       /\ loc = IdleLoc

NextCampaigns ==
  \/ PSC_Start
  \/ PSC_Campaign
  \/ PSC_LoopEnd
  \/ PSC_Finish

SpecCampaigns == InitCampaigns /\ [][NextCampaigns]_vars

\* ------------------------------------------------------- the control loop
\* NRuns triggers of fetch_adsets, each followed by the process_adsets task
\* it dispatches.  Account 1 has two campaigns of one ad set each, the name
\* of the first holds the campaign code; account 2 has no campaign.  Two
\* environments: the first ad set has an insights item and the platform
\* applies every update, or it has none and the platform accepts the updates
\* without applying them.
Init ==
  \E row \in { None,
               Some([spend |-> MaxSpend, actions |-> <<[action_type |-> "initiate_checkout",
                                                        value |-> 1]>>]) } :
    /\ catalog =
         << [account |-> "1", id |-> <<1>>, name |-> NameMatching, status |-> ACTIVE,
             adsets |-> << [id |-> <<1, 1>>, status |-> ACTIVE] >>],
            [account |-> "1", id |-> <<2>>, name |-> NameOther, status |-> ACTIVE,
             adsets |-> << [id |-> <<2, 1>>, status |-> ACTIVE] >>] >>
    /\ insights = [e \in Entities |-> IF e = <<1, 1>> THEN row ELSE None]
    /\ platStatus = [e \in Entities |-> ACTIVE]
    /\ fetch = [r \in Runs |-> IdleFetch]
    /\ task = [r \in Runs |-> IdleTask]
    /\ camp = IdleCamp
    /\ lockStore = [k \in LockKeys |-> NoToken]
    /\ pending = [k \in LockKeys |-> <<>>]
    /\ writes = [r \in Writers |-> <<>>]
    /\ readback = [e \in Entities |-> NoRead]
    /\ platform = IF row = None THEN "stuck" ELSE "reliable"
    /\ loc = IdleLoc

Next ==
  \/ \E r \in Runs :
       \/ F_Begin(r)
       \/ F_Enqueue(r)
       \/ F_VerifyAccount(r)
       \/ F_Insights(r)
       \/ F_List(r)
       \/ F_Build(r)
       \/ F_Release(r)
       \/ PA_Start(r)
       \/ PA_Decide(r)
       \/ PA_Finish(r)
       \/ PA_Update(r)
       \/ PA_Verify(r)
       \/ PA_Backoff(r)
  \/ \E k \in LockKeys : LockExpire(k)

Spec == Init /\ [][Next]_vars

\* ------------------------------------------------ process_adsets on a batch
\* One process_adsets task on a snapshot of NCampaigns campaigns with NAdsets
\* ad sets each, then the same task again on the snapshot the first one left.
\* The first ad set of every campaign has no insights item; the others have
\* the same item (spend 1, one checkout).  The platform changes its behaviour between two
\* entities of a task.
PlatformProfiles == {"reliable", "stuck", "down"}

\* requests.post / requests.get of lines 25 and 46: the platform starts or
\* stops accepting and applying updates (here: never in the middle of the
\* attempts for one entity)
PlatformTurn ==
  /\ platform \in PlatformProfiles
  /\ \E r \in Runs : task[r].pc = "loop"
  /\ \A r \in Runs : ~(task[r].pc \in {"update", "verify", "backoff"})
  /\ \E p \in PlatformProfiles \ {platform} : platform' = p
  /\ UNCHANGED <<lockStore, pending, platStatus, writes, readback, insights,
                 task, camp, catalog, fetch, loc>>

\* process_adsets (lines 202-203) called again with the same schedule and the
\* snapshot that the finished task of run r - 1 left
PA_Rerun(r) ==
  /\ r - 1 \in Runs
  /\ task[r].pc = "idle"
  /\ task[r - 1].pc = "done" /\ task[r - 1].result = "summary"
  /\ task' = [task EXCEPT ![r] =
                [IdleTask EXCEPT
                   !.pc = "queued",
                   !.schedule_data = task[r - 1].schedule_data,
                   !.campaigns_data = task[r - 1].campaigns_data,
                   !.dispatched_data = task[r - 1].campaigns_data]]
  /\ UNCHANGED <<lockStore, pending, platStatus, writes, readback, insights,
                 camp, catalog, fetch, platform, loc>>

BatchRow ==
  Some([spend |-> 1, actions |-> <<[action_type |-> "initiate_checkout", value |-> 1]>>])

InitBatch ==
  \E row \in {BatchRow}, st1 \in {ACTIVE, PAUSED}, st2 \in {ACTIVE, PAUSED},
     name2 \in CampaignNames, mode \in {ON, OFF},
     thr \in {ThrDen - 1, ThrDen + 1} :
    LET rows == [e \in Entities |->
                   IF e \in AdsetIds /\ e[2] > 1 THEN row ELSE None]
        status == [e \in Entities |->
                     IF e \in AdsetIds THEN (IF e[2] = 1 THEN st1 ELSE st2) ELSE ACTIVE]
        listing ==
          [c \in 1..NCampaigns |->
             [account |-> "1", id |-> <<c>>,
              name |-> IF c = 2 THEN name2 ELSE NameMatching,
              status |-> ACTIVE,
              adsets |-> [k \in 1..NAdsets |->
                            [id |-> <<c, k>>, status |-> status[<<c, k>>]]]]]
        data == BuildCampaignData(listing,
                   CppData(rows, CampaignIds), CppData(rows, AdsetIds))
    IN /\ insights = rows
       /\ platStatus = status
       /\ task = [r \in Runs |->
                   IF r = 1
                     THEN [IdleTask EXCEPT
                            !.pc = "queued",
                            !.schedule_data =
                               Some(Schedule(Some(CodeSO1), Some(mode),
                                             Some([form |-> "number", v |-> thr]))),
                            !.campaigns_data = data,
                            !.dispatched_data = data]
                     ELSE IdleTask]
       /\ catalog = listing
       /\ fetch = [r \in Runs |-> IdleFetch]
       /\ lockStore = [k \in LockKeys |-> NoToken]
       /\ pending = [k \in LockKeys |-> <<>>]
       /\ writes = [r \in Writers |-> <<>>]
       /\ readback = [e \in Entities |-> NoRead]
       /\ platform = "reliable"
       /\ loc = IdleLoc
       /\ camp = IdleCamp

NextBatch ==
  \/ PlatformTurn
  \/ \E r \in Runs :
       \/ PA_Start(r)
       \/ PA_Decide(r)
       \/ PA_Finish(r)
       \/ PA_Update(r)
       \/ PA_Verify(r)
       \/ PA_Backoff(r)
       \/ PA_Rerun(r)

SpecBatch == InitBatch /\ [][NextBatch]_vars

\* ------------------------------------------------- fetch_adsets on its own
\* NRuns triggers of fetch_adsets; the process_adsets tasks they dispatch stay
\* queued.  Account 1 has two campaigns of one ad set each; both campaigns
\* have an insights item and no ad set has one, so the campaign-level
\* insights and the listing have two pages of PageSize.  The pending list of
\* account id "1" is empty or holds the schedule of an earlier deferred
\* trigger.
InitFetch ==
  \E earlier \in {<<>>, <<Schedule(Some(CodeSO1), Some(OFF), None)>>} :
    /\ catalog =
         << [account |-> "1", id |-> <<1>>, name |-> NameMatching, status |-> ACTIVE,
             adsets |-> << [id |-> <<1, 1>>, status |-> ACTIVE] >>],
            [account |-> "1", id |-> <<2>>, name |-> NameOther, status |-> ACTIVE,
             adsets |-> << [id |-> <<2, 1>>, status |-> ACTIVE] >>] >>
    /\ insights = [e \in Entities |->
                     IF e \in {<<1>>, <<2>>} THEN BatchRow ELSE None]
    /\ platStatus = [e \in Entities |-> ACTIVE]
    /\ fetch = [r \in Runs |-> IdleFetch]
    /\ task = [r \in Runs |-> IdleTask]
    /\ camp = IdleCamp
    /\ lockStore = [k \in LockKeys |-> NoToken]
    /\ pending = [k \in LockKeys |-> IF k = "1" THEN earlier ELSE <<>>]
    /\ writes = [r \in Writers |-> <<>>]
    /\ readback = [e \in Entities |-> NoRead]
    /\ platform = "reliable"
    /\ loc = IdleLoc

NextFetch ==
  \/ \E r \in Runs :
       \/ F_Begin(r)
       \/ F_Enqueue(r)
       \/ F_VerifyAccount(r)
       \/ F_Insights(r)
       \/ F_List(r)
       \/ F_Build(r)
       \/ F_Release(r)
  \/ \E k \in LockKeys : LockExpire(k)

SpecFetch == InitFetch /\ [][NextFetch]_vars

\* ----------------------------------------- get_cpp_from_insights on its own
\* One run of fetch_adsets at its call of get_cpp_from_insights for the
\* campaign level (line 283): it holds the lock and the account check has
\* passed.  Campaign 1 has any insights item with at most MaxActions actions,
\* campaign 2 has an item or none.
MaxActions == 2

InitInsights ==
  \E row1 \in InsightRows(MaxActions) \ {None}, row2 \in {None, BatchRow} :
    /\ catalog =
         << [account |-> "1", id |-> <<1>>, name |-> NameMatching, status |-> ACTIVE,
             adsets |-> << [id |-> <<1, 1>>, status |-> ACTIVE] >>],
            [account |-> "1", id |-> <<2>>, name |-> NameOther, status |-> ACTIVE,
             adsets |-> << [id |-> <<2, 1>>, status |-> ACTIVE] >>] >>
    /\ insights = [e \in Entities |->
                     IF e = <<1>> THEN row1 ELSE IF e = <<2>> THEN row2 ELSE None]
    /\ platStatus = [e \in Entities |-> ACTIVE]
    /\ fetch = [r \in Runs |->
                  IF r = 1
                    THEN [IdleFetch EXCEPT
                            !.pc = "insights", !.ad_account_id = "1",
                            !.matched_schedule =
                               Some(Schedule(Some(CodeSO1), Some(ON), None)),
                            !.token = 1, !.level = "campaign", !.page = 1,
                            !.messages = <<"start", "date range", "account ok">>]
                    ELSE IdleFetch]
    /\ task = [r \in Runs |-> IdleTask]
    /\ camp = IdleCamp
    /\ lockStore = [k \in LockKeys |-> IF k = "1" THEN 1 ELSE NoToken]
    /\ pending = [k \in LockKeys |-> <<>>]
    /\ writes = [r \in Writers |-> <<>>]
    /\ readback = [e \in Entities |-> NoRead]
    /\ platform = "reliable"
    /\ loc = IdleLoc

NextInsights == \E r \in Runs : F_Insights(r)

SpecInsights == InitInsights /\ [][NextInsights]_vars

\* process_adsets on a batch, or process_scheduled_campaigns
InitIdempotence == InitBatch \/ InitCampaigns

NextIdempotence == NextBatch \/ NextCampaigns

SpecIdempotence == InitIdempotence /\ [][NextIdempotence]_vars

\* ------------------------- update_locations_by_campaign_components on its own
\* One task for account 1, whose two campaigns have names written in several
\* ways (components in another order, blanks around the dashes, two blanks
\* inside a component, another item); the first campaign has NAdsets ad sets
\* or none, the second has one.  The expected components differ from the
\* names in case and in blanks; the location names are known to a table or
\* to none.
NamePlain == <<"P","g"," ","A","-","I","t","-","P","1">>
NameMoved == <<"P","1"," ","-"," ","I","t"," ","-"," ","p","g"," ","a">>
NameWide == <<"P","g"," "," ","A","-","I","t","-","P","1">>
NamePartial == <<"P","g"," ","A","-","X","x","-","P","1">>
ResolverNames == {NamePlain, NameMoved, NameWide, NamePartial}

ExpectedPages ==
  { <<"p","g"," ","a">>, <<" ","P","G"," ","A"," ">>, <<"P","g"," "," ","A">>, <<>> }
ExpectedItems == { <<"I","t">>, <<"i","t"," ">> }
ExpectedCodes == { <<"P","1">>, <<" ","p","1">>, <<"P","2">> }

LocationLists ==
  { <<>>, <<"Atlantis">>, <<"Cebu", "Atlantis">>, <<"Manila", "Cebu">> }

InitLocations ==
  \E name1 \in ResolverNames, name2 \in {NamePlain, NamePartial},
     n1 \in {0, NAdsets}, page \in ExpectedPages, item \in ExpectedItems,
     code \in ExpectedCodes, names \in LocationLists :
    /\ catalog =
         << [account |-> "1", id |-> <<1>>, name |-> name1, status |-> ACTIVE,
             adsets |-> [k \in 1..n1 |-> [id |-> <<1, k>>, status |-> ACTIVE]]],
            [account |-> "1", id |-> <<2>>, name |-> name2, status |-> ACTIVE,
             adsets |-> << [id |-> <<2, 1>>, status |-> ACTIVE] >>] >>
    /\ loc = [IdleLoc EXCEPT !.pc = "queued", !.page_name = page,
                             !.item_name = item, !.campaign_code = code,
                             !.new_regions_city = names]
    /\ insights = [e \in Entities |-> None]
    /\ platStatus = [e \in Entities |-> ACTIVE]
    /\ fetch = [r \in Runs |-> IdleFetch]
    /\ task = [r \in Runs |-> IdleTask]
    /\ camp = IdleCamp
    /\ lockStore = [k \in LockKeys |-> NoToken]
    /\ pending = [k \in LockKeys |-> <<>>]
    /\ writes = [r \in Writers |-> <<>>]
    /\ readback = [e \in Entities |-> NoRead]
    /\ platform = "reliable"

NextLocations ==
  \/ L_Find
  \/ L_Adsets
  \/ L_Keys
  \/ L_Update
  \/ L_Finish

SpecLocations == InitLocations /\ [][NextLocations]_vars

\* ------------------------------ fetch_adsets beside the location update
\* NRuns triggers of fetch_adsets and one update_locations_by_campaign_components
\* task.  The campaign of account 1 has a name without the campaign code of
\* the schedules, and one ad set or none; the campaign of account 2 has a
\* name with the code.  No entity has an insights item.
InitZeroMatch ==
  \E n1 \in {0, 1}, names \in {<<"Atlantis">>, <<"Cebu", "Atlantis">>} :
    /\ catalog =
         << [account |-> "1", id |-> <<1>>, name |-> NamePlain, status |-> ACTIVE,
             adsets |-> [k \in 1..n1 |-> [id |-> <<1, k>>, status |-> ACTIVE]]],
            [account |-> "2", id |-> <<2>>, name |-> NameMatching, status |-> ACTIVE,
             adsets |-> << [id |-> <<2, 1>>, status |-> ACTIVE] >>] >>
    /\ loc = [IdleLoc EXCEPT !.pc = "queued", !.page_name = <<"p","g"," ","a">>,
                             !.item_name = <<"I","t">>,
                             !.campaign_code = <<"P","1">>,
                             !.new_regions_city = names]
    /\ insights = [e \in Entities |-> None]
    /\ platStatus = [e \in Entities |-> ACTIVE]
    /\ fetch = [r \in Runs |-> IdleFetch]
    /\ task = [r \in Runs |-> IdleTask]
    /\ camp = IdleCamp
    /\ lockStore = [k \in LockKeys |-> NoToken]
    /\ pending = [k \in LockKeys |-> <<>>]
    /\ writes = [r \in Writers |-> <<>>]
    /\ readback = [e \in Entities |-> NoRead]
    /\ platform = "reliable"

NextZeroMatch == NextFetch \/ NextLocations

SpecZeroMatch == InitZeroMatch /\ [][NextZeroMatch]_vars

\* ------------------------------------------- the decisions of both levels
\* process_adsets on one ad set, or process_scheduled_campaigns
InitDecisions == InitAdsets \/ InitCampaigns

NextDecisions == NextAdsets \/ NextCampaigns

SpecDecisions == InitDecisions /\ [][NextDecisions]_vars

\* ------------------------------------------- the control loop, scheduled
\* The control loop with the scheduling that the task queue and Redis give:
\* a task that has started takes its next step (the worker runs it to its
\* return), a dispatched process_adsets task is taken by a worker, and a lock
\* key expires.  Triggers may or may not arrive.
RunSteps(r) ==
  \/ F_Enqueue(r)
  \/ F_VerifyAccount(r)
  \/ F_Insights(r)
  \/ F_List(r)
  \/ F_Build(r)
  \/ F_Release(r)
  \/ PA_Start(r)
  \/ PA_Decide(r)
  \/ PA_Finish(r)
  \/ PA_Update(r)
  \/ PA_Verify(r)
  \/ PA_Backoff(r)

FairSpec ==
  /\ Init /\ [][Next]_vars
  /\ \A r \in Runs : WF_vars(RunSteps(r))
  /\ \A k \in LockKeys : WF_vars(LockExpire(k))

\* --------------------------------------------- the filter by campaign code
\* One run of fetch_adsets at its filter (line 320): it holds the lock and has
\* listed the two campaigns of account 1, of one ad set each, and the insights
\* item of the first ad set; then the process_adsets task it dispatches.  The
\* campaign code of the schedule is written in several ways, among them the
\* empty string and a lone dash.
CodeForms ==
  { CodeSO1, <<"S","O","1">>, <<" ","-","s","o","1","-">>, <<"x","9">>, <<"-">>, <<>> }

InitCodes ==
  \E code \in CodeForms, name1 \in CampaignNames, name2 \in CampaignNames,
     mode \in {ON, OFF}, st \in {ACTIVE, PAUSED} :
    LET rows == [e \in Entities |-> IF e = <<1, 1>> THEN BatchRow ELSE None]
        status == [e \in Entities |-> IF e \in AdsetIds THEN st ELSE ACTIVE]
        listing ==
          << [account |-> "1", id |-> <<1>>, name |-> name1, status |-> ACTIVE,
              adsets |-> << [id |-> <<1, 1>>, status |-> st] >>],
             [account |-> "1", id |-> <<2>>, name |-> name2, status |-> ACTIVE,
              adsets |-> << [id |-> <<2, 1>>, status |-> st] >>] >>
    IN /\ catalog = listing
       /\ insights = rows
       /\ platStatus = status
       /\ fetch = [r \in Runs |->
                     IF r = 1
                       THEN [IdleFetch EXCEPT
                               !.pc = "build", !.ad_account_id = "1",
                               !.matched_schedule =
                                  Some(Schedule(Some(code), Some(mode),
                                         Some([form |-> "number", v |-> ThrDen + 1]))),
                               !.token = 1, !.level = "adset", !.page = 2,
                               !.cpp_campaign_data = CppData(rows, CampaignIds),
                               !.cpp_adset_data = CppData(rows, AdsetIds),
                               !.all_campaigns =
                                  [i \in 1..2 |->
                                     [ id |-> listing[i].id, name |-> listing[i].name,
                                       status |-> listing[i].status,
                                       adsets |-> listing[i].adsets ]],
                               !.messages =
                                  <<"start", "date range", "account ok",
                                    "fetching insights", "api url", "request report",
                                    "cpp summary",
                                    "fetching insights", "api url", "request report",
                                    "cpp summary">>]
                       ELSE IdleFetch]
       /\ task = [r \in Runs |-> IdleTask]
       /\ camp = IdleCamp
       /\ lockStore = [k \in LockKeys |-> IF k = "1" THEN 1 ELSE NoToken]
       /\ pending = [k \in LockKeys |-> <<>>]
       /\ writes = [r \in Writers |-> <<>>]
       /\ readback = [e \in Entities |-> NoRead]
       /\ platform = "any"
       /\ loc = IdleLoc

NextCodes ==
  \E r \in Runs :
    \/ F_Build(r)
    \/ F_Release(r)
    \/ PA_Start(r)
    \/ PA_Decide(r)
    \/ PA_Finish(r)
    \/ PA_Update(r)
    \/ PA_Verify(r)
    \/ PA_Backoff(r)

SpecCodes == InitCodes /\ [][NextCodes]_vars

\* ----------------------- process_scheduled_campaigns on any schedule_data
\* The schedule as the caller passes it: each of campaign_code, watch, on_off
\* and cpp_metric present or absent; the stored entry present, present with
\* no matched campaigns, or absent (line 139).
InitSchedules ==
  \E row \in InsightRows(1), st \in Statuses,
     code \in {None, Some(CodeSO1)}, mode \in {None, Some(ON), Some(OFF)},
     watch \in {None} \cup {Some(w) : w \in WatchLevels},
     thr \in Thresholds({"number", "text"}), stored \in {"none", "empty", "data"} :
    LET rows == [e \in Entities |-> IF e = <<1>> THEN row ELSE None]
        listing ==
          << [account |-> "1", id |-> <<1>>, name |-> NameMatching, status |-> st,
              adsets |-> <<>>] >>
        data == BuildCampaignData(listing, CppData(rows, CampaignIds), <<>>)
    IN /\ insights = rows
       /\ platStatus = [e \in Entities |-> IF e = <<1>> THEN st ELSE ACTIVE]
       /\ camp = [IdleCamp EXCEPT
                    !.pc = "queued",
                    !.schedule_data =
                       Some([Schedule(code, mode, thr) EXCEPT !.watch = watch]),
                    !.entry =
                       IF stored = "none" THEN None
                       ELSE Some([matched_campaign_data |->
                                    IF stored = "empty" THEN <<>> ELSE data,
                                  last_check_status |-> ""])]
       /\ task = [r \in Runs |-> IdleTask]
       /\ catalog = listing
       /\ fetch = [r \in Runs |-> IdleFetch]
       /\ lockStore = [k \in LockKeys |-> NoToken]
       /\ pending = [k \in LockKeys |-> <<>>]
       /\ writes = [r \in Writers |-> <<>>]
       /\ readback = [e \in Entities |-> NoRead]
       /\ platform = "any"
       /\ loc = IdleLoc

SpecSchedules == InitSchedules /\ [][NextCampaigns]_vars

\* =================================================================== claims
\* Vocabulary of the claims about process_adsets.
OutcomeCount(id) ==
  IF IsSome(insights[id]) THEN initiate_checkout_value(Val(insights[id]).actions) ELSE 0

Spend(id) == IF IsSome(insights[id]) THEN Val(insights[id]).spend ELSE 0

HasRow(id) == IsSome(insights[id])

\* the step in which run r decides its next ad set
DecideStep(r) ==
  /\ task[r].pc = "loop"
  /\ <<task'[r].ci, task'[r].ai>> # <<task[r].ci, task[r].ai>>

\* the ad set decided in that step, as the snapshot held it before the step
Decided(r) == task[r].campaigns_data[task'[r].ci].ADSETS[task'[r].ai]

\* the step produced target s; Apply is invoked iff the status differs
YieldsTarget(r, s) ==
  /\ task'[r].target_status = Some(s)
  /\ task'[r].pc = IF Decided(r).STATUS # s THEN "update" ELSE "loop"

\* the step produced no target and did not invoke Apply
NoDecision(r) ==
  /\ task'[r].target_status = task[r].target_status
  /\ task'[r].pc = "loop"

ModeOf(r) == str_lower(Val(Val(task[r].schedule_data).on_off))

ThresholdOf(r) ==
  LET m == Val(task[r].schedule_data).cpp_metric
  IN IF IsSome(m) THEN Val(m).v ELSE 0

\* the writes that run r issued for entity id
WritesOf(r, id) == SelectSeq(writes[r], LAMBDA w : w.id = id)

\* C5: an ad set with outcome count zero is decided PAUSED in every mode, for
\* every threshold and spend: Apply (target PAUSED) is invoked exactly when
\* its status is not PAUSED, and nothing is done when it is PAUSED already.
C5_UndefinedMetricPaused ==
  [][\A r \in Runs :
       (DecideStep(r) /\ OutcomeCount(Decided(r).id) = 0) =>
          IF Decided(r).STATUS # PAUSED
            THEN task'[r].pc = "update" /\ task'[r].target_status = Some(PAUSED)
            ELSE task'[r].pc = "loop"]_vars

C5_Witness ==
  \E r \in Runs :
    /\ task[r].pc = "update"
    /\ HasRow(CurAdset(r).id) /\ OutcomeCount(CurAdset(r).id) = 0
    /\ Spend(CurAdset(r).id) > 0
    /\ ModeOf(r) = <<"o","n">>
    /\ CurAdset(r).STATUS = ACTIVE
    /\ task[r].target_status = Some(PAUSED)

\* C6 as stated: an ad set with spend 0 gets "no change" whatever its
\* outcome count.
C6_Original ==
  [][\A r \in Runs :
       (DecideStep(r) /\ HasRow(Decided(r).id) /\ Spend(Decided(r).id) = 0)
          => NoDecision(r)]_vars

\* C6 amended: an ad set with spend 0 and a positive outcome count gets "no
\* change" (no target, no Apply) in every mode, for every threshold and
\* status; with spend 0 and outcome count zero the undefined-metric rule
\* applies instead and the ad set is paused unless it is PAUSED already.
C6_ZeroSpendHold ==
  [][\A r \in Runs :
       (DecideStep(r) /\ HasRow(Decided(r).id) /\ Spend(Decided(r).id) = 0) =>
          IF OutcomeCount(Decided(r).id) > 0
            THEN NoDecision(r)
            ELSE IF Decided(r).STATUS # PAUSED
                   THEN task'[r].pc = "update" /\ task'[r].target_status = Some(PAUSED)
                   ELSE task'[r].pc = "loop"]_vars

C6_Witness ==
  \E r \in Runs :
    /\ task[r].pc = "loop" /\ task[r].ai = 1
    /\ HasRow(CurAdset(r).id)
    /\ Spend(CurAdset(r).id) = 0 /\ OutcomeCount(CurAdset(r).id) > 0
    /\ ModeOf(r) = <<"o","n">> /\ ThresholdOf(r) > 0
    /\ CurAdset(r).STATUS = PAUSED
    /\ task[r].target_status = None
    /\ writes[r] = <<>>

\* C7: an ad set with a defined, non-zero metric: mode ON gives ACTIVE below
\* the threshold and PAUSED at or above it; mode OFF gives PAUSED at or above
\* the threshold and no decision below it; the mode is compared without
\* regard to case.
C7_ThresholdRules ==
  [][\A r \in Runs :
       (DecideStep(r) /\ OutcomeCount(Decided(r).id) > 0 /\ Spend(Decided(r).id) > 0) =>
          LET below == Spend(Decided(r).id) * ThrDen
                         < ThresholdOf(r) * OutcomeCount(Decided(r).id)
          IN /\ (ModeOf(r) = <<"o","n">> /\ below) => YieldsTarget(r, ACTIVE)
             /\ (ModeOf(r) = <<"o","n">> /\ ~below) => YieldsTarget(r, PAUSED)
             /\ (ModeOf(r) = <<"o","f","f">> /\ ~below) => YieldsTarget(r, PAUSED)
             /\ (ModeOf(r) = <<"o","f","f">> /\ below) => NoDecision(r)]_vars

\* the boundary metric = threshold, mode written "Off"
C7_Witness ==
  \E r \in Runs :
    /\ task[r].pc = "update"
    /\ Val(Val(task[r].schedule_data).on_off) = <<"O","f","f">>
    /\ OutcomeCount(CurAdset(r).id) = 2 /\ Spend(CurAdset(r).id) = 2
    /\ ThresholdOf(r) = ThrDen
    /\ CurAdset(r).STATUS = ACTIVE
    /\ task[r].target_status = Some(PAUSED)

\* C10: when every update call for an ad set was accepted and no read-back
\* returned the target, the apply has ended in failure only after
\* max_retries + 1 update calls, and the recorded status of the ad set is the
\* one the snapshot had when the task was dispatched.
ApplyEnded(r) ==
  /\ task[r].pc \in {"loop", "done"}
  /\ task[r].ai >= 1
  /\ Len(WritesOf(r, CurAdset(r).id)) > 0

C10_NoStickFails ==
  \A r \in Runs :
    (/\ ApplyEnded(r)
     /\ \A i \in 1..Len(WritesOf(r, CurAdset(r).id)) : WritesOf(r, CurAdset(r).id)[i].ok
     /\ readback[CurAdset(r).id] # Val(task[r].target_status))
    => /\ Len(WritesOf(r, CurAdset(r).id)) = max_retries + 1
       /\ task[r].total_updated = 0
       /\ CurAdset(r).STATUS
            = task[r].dispatched_data[task[r].ci].ADSETS[task[r].ai].STATUS

\* accepted three times, never changed on the platform, read back each time
C10_Witness ==
  \E r \in Runs :
    /\ ApplyEnded(r)
    /\ Len(WritesOf(r, CurAdset(r).id)) = 3
    /\ \A i \in 1..3 : WritesOf(r, CurAdset(r).id)[i].ok
    /\ readback[CurAdset(r).id] = ACTIVE
    /\ platStatus[CurAdset(r).id] = ACTIVE
    /\ task[r].target_status = Some(PAUSED)
    /\ CurAdset(r).STATUS = ACTIVE


\* ------------------------------------------------------- the run lock
\* the account a run works on (line 244)
AccountOf(r) == clean_ad_account_id(fetch[r].ad_account_id)

\* run r owns a lock in Redis: the key it set still holds its token
HoldsLock(r) ==
  /\ fetch[r].token # NoToken
  /\ lockStore[fetch[r].ad_account_id] = fetch[r].token

\* run r is between its lock acquisition and its lock release
InLockedSection(r) ==
  fetch[r].pc \in {"verify", "insights", "list", "build", "release"}

\* the process_adsets task of run r is deciding or applying
Deciding(r) == task[r].pc \in {"loop", "update", "verify", "backoff"}

\* the step in which run r starts, with a valid account id
BeginStep(r) ==
  /\ fetch[r].pc = "idle"
  /\ fetch'[r].pc # "idle"
  /\ fetch'[r].ad_account_id # InvalidId

\* C1 as stated: per account at most one execution holds the account's lock,
\* and an execution that starts while another execution for the same account
\* holds it is deferred at once, without acquiring anything.
C1_Original ==
  /\ [](\A r1, r2 \in Runs :
          (r1 # r2 /\ HoldsLock(r1) /\ HoldsLock(r2)) => AccountOf(r1) # AccountOf(r2))
  /\ [][\A r \in Runs :
          (BeginStep(r) /\ \E r2 \in Runs \ {r} :
                              HoldsLock(r2) /\ AccountOf(r2) = AccountOf(r)')
            => (fetch'[r].pc = "enqueue" /\ lockStore' = lockStore)]_vars

\* C2 as stated: while the process_adsets task of a run decides and applies,
\* the run still holds the lock of its account, and the tasks of two runs
\* for one account never decide or apply at the same time.
C2_Original ==
  /\ \A r \in Runs : Deciding(r) => HoldsLock(r)
  /\ \A r1, r2 \in Runs :
       (r1 # r2 /\ Deciding(r1) /\ Deciding(r2)) => AccountOf(r1) # AccountOf(r2)

\* C3 as stated, for two triggers that name the account by the same id: no
\* two executions are at once between lock acquisition and lock release.
C3_Original ==
  \A r1, r2 \in Runs :
    (r1 # r2 /\ InLockedSection(r1) /\ InLockedSection(r2))
      => fetch[r1].ad_account_id # fetch[r2].ad_account_id

\* C4: a fetch_adsets execution that has returned owns no lock, whatever
\* its exit path.
C4_ReleasedOnExit ==
  \A r \in Runs : fetch[r].pc = "done" => \A k \in LockKeys : lockStore[k] # r

\* one run left through the exception handler, the other completed; both
\* had acquired the lock and neither owns it
C4_Witness ==
  \E r1, r2 \in Runs :
    /\ fetch[r1].pc = "done" /\ fetch[r1].result = "exception"
    /\ fetch[r2].pc = "done" /\ fetch[r2].result = "fetched"
    /\ \A k \in LockKeys : lockStore[k] = NoToken

\* ------------------------------------------------------ campaign level
\* the step in which process_scheduled_campaigns handles its next campaign
CampaignStep == camp.pc = "loop" /\ camp'.i = camp.i + 1

CampaignInfo == camp.campaign_data[camp'.i]

CampaignThreshold ==
  LET m == Val(camp.schedule_data).cpp_metric
  IN IF IsSome(m) THEN Val(m).v ELSE 0

\* target s: an update to s is issued iff the status differs
CampaignTarget(s) ==
  IF CampaignInfo.STATUS # s
    THEN \E ok \in BOOLEAN :
           writes'[RunCampaigns] =
             Append(writes[RunCampaigns],
                    [id |-> CampaignInfo.id, status |-> s, ok |-> ok])
    ELSE writes' = writes

CampaignUnchanged ==
  /\ writes' = writes
  /\ camp'.campaign_data = camp.campaign_data

\* C8 as stated: a campaign with a defined metric, mode ON: ACTIVE below the
\* threshold of the schedule and PAUSED at or above it; mode OFF: PAUSED at or
\* above the threshold and unchanged below it.
C8_Original ==
  [][(CampaignStep /\ OutcomeCount(CampaignInfo.id) > 0) =>
       LET below == Spend(CampaignInfo.id) * ThrDen
                      < CampaignThreshold * OutcomeCount(CampaignInfo.id)
           mode == Val(Val(camp.schedule_data).on_off)
       IN /\ (mode = ON /\ below) => CampaignTarget(ACTIVE)
          /\ (mode = ON /\ ~below) => CampaignTarget(PAUSED)
          /\ (mode = OFF /\ ~below) => CampaignTarget(PAUSED)
          /\ (mode = OFF /\ below) => CampaignUnchanged]_vars

\* C9 as stated: a recorded status (of an ad set in a process_adsets
\* snapshot, of a campaign in the process_scheduled_campaigns snapshot)
\* changes only to the status of an accepted update call that a following
\* read of the entity returned.
RecordedChange(old, new, w) ==
  old.STATUS # new.STATUS =>
    /\ Len(w) > 0
    /\ w[Len(w)] = [id |-> old.id, status |-> new.STATUS, ok |-> TRUE]
    /\ readback'[old.id] = new.STATUS

C9_Original ==
  [][/\ \A r \in Runs :
          \A ci \in 1..Len(task[r].campaigns_data) :
            \A ai \in 1..Len(task[r].campaigns_data[ci].ADSETS) :
              task'[r].campaigns_data # <<>> =>
                RecordedChange(task[r].campaigns_data[ci].ADSETS[ai],
                               task'[r].campaigns_data[ci].ADSETS[ai], writes'[r])
     /\ \A i \in 1..Len(camp.campaign_data) :
          RecordedChange(camp.campaign_data[i], camp'.campaign_data[i],
                         writes'[RunCampaigns])]_vars

\* ------------------------------------------------- the retry budget
\* run r is inside update_facebook_status_with_retry for its current ad set
Applying(r) == task[r].pc \in {"update", "verify", "backoff"}

\* the last update call of run r for entity id
LastWrite(r, id) == WritesOf(r, id)[Len(WritesOf(r, id))]

\* C11: one apply issues at most 3 update calls; every attempt is one update
\* call, followed by a verification read exactly when the call was accepted;
\* the apply stops at the first read-back equal to the target; the waits
\* between attempts are 1 s then 2 s, and no wait follows the last attempt.
C11_RetrySchedule ==
  \A r \in Runs :
    LET t == task[r]
        id == CurAdset(r).id
        w == WritesOf(r, id)
        target == Val(t.target_status)
    IN /\ Applying(r) =>
            /\ t.attempt <= 2
            /\ Len(w) = (IF t.pc = "update" THEN t.attempt ELSE t.attempt + 1)
            /\ t.sleeps = SubSeq(<<1, 2>>, 1, t.attempt)
            /\ t.pc = "backoff" => t.attempt < 2
            /\ t.pc = "verify" => (LastWrite(r, id).ok /\ readback[id] = NoRead)
            /\ (t.pc = "backoff" \/ (t.pc = "update" /\ t.attempt > 0)) =>
                 IF LastWrite(r, id).ok
                   THEN readback[id] \notin {NoRead, target}
                   ELSE readback[id] = NoRead
       /\ ApplyEnded(r) =>
            /\ Len(w) <= 3
            /\ Len(w) = t.attempt + 1
            /\ t.sleeps = SubSeq(<<1, 2>>, 1, t.attempt)
            /\ \/ LastWrite(r, id).ok /\ readback[id] = target
               \/ /\ Len(w) = 3
                  /\ IF LastWrite(r, id).ok
                       THEN readback[id] \notin {NoRead, target}
                       ELSE readback[id] = NoRead

\* a rejected call, then an accepted call whose read-back differs, then an
\* accepted call that is verified: three attempts, waits of 1 s and 2 s
C11_Witness ==
  \E r \in Runs :
    LET w == WritesOf(r, CurAdset(r).id)
    IN /\ ApplyEnded(r)
       /\ Len(w) = 3
       /\ ~w[1].ok /\ w[2].ok /\ w[3].ok
       /\ task[r].sleeps = <<1, 2>>
       /\ readback[CurAdset(r).id] = Val(task[r].target_status)
       /\ task[r].total_updated = 1

\* ------------------------------------------------------- idempotence
\* the positions (campaign, ad set) of the snapshot a task was given
Positions(r) ==
  {<<ci, ai>> : ci \in 1..Len(task[r].dispatched_data), ai \in 1..NAdsets}
    \cap {p \in Nat \X Nat : p[2] <= Len(task[r].dispatched_data[p[1]].ADSETS)}

GivenAdset(r, p) == task[r].dispatched_data[p[1]].ADSETS[p[2]]

LeftAdset(r, p) == task[r].campaigns_data[p[1]].ADSETS[p[2]]

\* run r is process_adsets called again on the snapshot that run r - 1 left
IsRerun(r) == r - 1 \in Runs /\ task[r].pc # "idle"

\* the first status that run r asked for entity id, or None
Asked(r, id) ==
  IF WritesOf(r, id) = <<>> THEN None ELSE Some(WritesOf(r, id)[1].status)

\* C12: (a) a second run decides an ad set whose recorded status and metric
\* are the same as in the first run the same way (update calls for it in both
\* runs or in neither, with the same target); (b) a decision whose target is
\* the current status issues no update call, for ad sets and for campaigns;
\* (c) a second run on the snapshot left by a run issues no update call for an
\* ad set whose apply succeeded in that run.
C12_Idempotent ==
  /\ [](\A r \in Runs : IsRerun(r) =>
          \A p \in Positions(r) :
            /\ LeftAdset(r - 1, p).STATUS # GivenAdset(r - 1, p).STATUS
                 => WritesOf(r, GivenAdset(r, p).id) = <<>>
            /\ (task[r].pc = "done"
                  /\ LeftAdset(r - 1, p).STATUS = GivenAdset(r - 1, p).STATUS)
                 => Asked(r, GivenAdset(r, p).id) = Asked(r - 1, GivenAdset(r, p).id))
  /\ [][/\ \A r \in Runs :
             (DecideStep(r) /\ task'[r].target_status = Some(Decided(r).STATUS))
               => (task'[r].pc = "loop" /\ writes' = writes)
        /\ (CampaignStep
              /\ CampaignDecision(CampaignInfo.CPP, camp.on_off, camp.cpp_metric)
                   = Target(CampaignInfo.STATUS))
             => writes' = writes]_vars

\* the second run has finished; the first run changed one ad set with a
\* defined metric and failed to change another; the second run decided the
\* first one again (target = its status, no update call) and asked again for
\* the other
C12_Witness ==
  \E r \in Runs :
    /\ IsRerun(r)
    /\ task[r].pc = "done"
    /\ \E p, q \in Positions(r) :
         /\ ~IsInf(GivenAdset(r, p).CPP)
         /\ LeftAdset(r - 1, p).STATUS # GivenAdset(r - 1, p).STATUS
         /\ WritesOf(r - 1, GivenAdset(r, p).id) # <<>>
         /\ WritesOf(r, GivenAdset(r, p).id) = <<>>
         /\ LeftAdset(r - 1, q).STATUS = GivenAdset(r - 1, q).STATUS
         /\ Asked(r - 1, GivenAdset(r, q).id) # None
         /\ Asked(r, GivenAdset(r, q).id) = Asked(r - 1, GivenAdset(r, q).id)

\* ------------------------------------------------- isolation of failures
\* the positions of the ad sets of the campaigns whose name holds the code
MatchingPositions(r) ==
  {p \in Positions(r) :
     is_campaign_code_match(task[r].dispatched_data[p[1]].campaign_name, CurCode(r))}

\* position p comes before position q in the order of the snapshot
Before(p, q) == p[1] < q[1] \/ (p[1] = q[1] /\ p[2] < q[2])

\* the apply of run r for the ad set at position p ended in failure
ApplyFailed(r, p) ==
  /\ WritesOf(r, GivenAdset(r, p).id) # <<>>
  /\ LeftAdset(r, p).STATUS = GivenAdset(r, p).STATUS
  /\ (Before(p, <<task[r].ci, task[r].ai>>) \/ task[r].pc = "done")

\* C13: the ad sets of the matching campaigns are decided one after the other
\* in snapshot order, none skipped and none twice; an apply starts only with
\* the decision of its ad set and every update call is for the ad set just
\* decided; whatever the applies did, the run ends with its summary, having
\* decided every ad set of every matching campaign.
C13_EveryAdsetOnce ==
  /\ [](\A r \in Runs :
          /\ task[r].pc = "done" =>
               /\ task[r].result = "summary"
               /\ task[r].total_processed = Cardinality(MatchingPositions(r))
          /\ \A e \in Entities : Len(WritesOf(r, e)) <= 3)
  /\ [][\A r \in Runs :
          /\ DecideStep(r) =>
               LET old == <<task[r].ci, task[r].ai>>
                   new == <<task'[r].ci, task'[r].ai>>
               IN /\ new \in MatchingPositions(r)
                  /\ Before(old, new)
                  /\ \A p \in MatchingPositions(r) : ~(Before(old, p) /\ Before(p, new))
                  /\ task'[r].total_processed = task[r].total_processed + 1
          /\ (task'[r].pc = "update" /\ task[r].pc \notin {"update", "backoff"})
               => DecideStep(r)
          /\ writes'[r] # writes[r] =>
               \E ok \in BOOLEAN :
                 writes'[r] = Append(writes[r],
                                [id |-> CurAdset(r).id,
                                 status |-> Val(task[r].target_status), ok |-> ok])]_vars

\* the run ended with its summary after the apply of the first ad set failed,
\* the apply of a later ad set of the same campaign succeeded and an ad set of
\* a later campaign was applied as well
C13_Witness ==
  \E r \in Runs :
    /\ task[r].pc = "done" /\ task[r].result = "summary"
    /\ \E p, q, o \in MatchingPositions(r) :
         /\ ApplyFailed(r, p)
         /\ Len(WritesOf(r, GivenAdset(r, p).id)) = 3
         /\ q[1] = p[1] /\ Before(p, q)
         /\ LeftAdset(r, q).STATUS # GivenAdset(r, q).STATUS
         /\ o[1] > p[1]
         /\ WritesOf(r, GivenAdset(r, o).id) # <<>>

\* ------------------------------------------------- the deferred trigger
\* the step in which run r finds the lock taken
ContentionStep(r) == fetch[r].pc = "idle" /\ fetch'[r].pc = "enqueue"

\* the step in which run r, having found the lock taken, returns
DeferStep(r) == fetch[r].pc = "enqueue" /\ fetch'[r].pc # "enqueue"

\* C14: a run that finds the lock taken leaves the lock as it is, appends its
\* schedule once at the tail of the pending list of its account id and returns
\* the deferred result, having made no request to the platform and changed
\* nothing else; the pending lists change in no other way, so each holds the
\* schedules of the deferred triggers in the order of their deferral.
C14_DeferredAppends ==
  [][/\ \A r \in Runs :
          /\ ContentionStep(r) =>
               /\ lockStore[fetch'[r].ad_account_id] # NoToken
               /\ lockStore' = lockStore /\ pending' = pending
          /\ fetch'[r].pc = "enqueue" => fetch[r].pc \in {"idle", "enqueue"}
          /\ DeferStep(r) =>
               /\ pending' = [pending EXCEPT ![fetch[r].ad_account_id] =
                                Append(@, Val(fetch[r].matched_schedule))]
               /\ fetch'[r] = [fetch[r] EXCEPT !.pc = "done", !.result = "deferred"]
               /\ fetch[r].token = NoToken
               /\ fetch[r].cpp_campaign_data = <<>> /\ fetch[r].cpp_adset_data = <<>>
               /\ fetch[r].all_campaigns = <<>>
               /\ task'[r] = IdleTask
               /\ UNCHANGED <<lockStore, platStatus, writes, readback, insights,
                              task, camp, catalog>>
     /\ pending' # pending => \E r \in Runs : DeferStep(r)]_vars

\* a deferred run behind an earlier deferred schedule: the list holds the
\* earlier schedule first, then this run's, while the other run holds the lock
C14_Witness ==
  \E r, r2 \in Runs :
    /\ fetch[r].pc = "done" /\ fetch[r].result = "deferred"
    /\ fetch[r].ad_account_id = "1"
    /\ lockStore["1"] = r2
    /\ Len(pending["1"]) = 2
    /\ pending["1"][1] # pending["1"][2]
    /\ pending["1"][2] = Val(fetch[r].matched_schedule)

\* ------------------------------------------------------- the cost metric
\* the metrics that the runs hold, by entity
Metrics(r) ==
  [id \in DOMAIN fetch[r].cpp_campaign_data \cup DOMAIN fetch[r].cpp_adset_data |->
     IF id \in DOMAIN fetch[r].cpp_campaign_data
       THEN fetch[r].cpp_campaign_data[id] ELSE fetch[r].cpp_adset_data[id]]

\* the values of the actions of the item of entity id whose type is in the
\* checkout-equivalent set
RecognisedValues(id) ==
  LET actions == Val(insights[id]).actions
  IN {actions[i].value : i \in {j \in 1..Len(actions) :
                                  actions[j].action_type \in checkout_actions}}

\* C15: the metric computed for an entity is the undefined sentinel when no
\* recognised action of its item has a positive value, whatever the spend (it
\* is then no number, in particular not 0); otherwise it is the spend divided
\* by the outcome count.
C15_UndefinedWhenNoOutcome ==
  \A r \in Runs : \A id \in DOMAIN Metrics(r) :
    LET cpp == Metrics(r)[id]
    IN IF \A v \in RecognisedValues(id) : v = 0
         THEN cpp = Inf /\ cpp.k # "num"
         ELSE /\ cpp.k = "num"
              /\ cpp.d > 0
              /\ \E v \in RecognisedValues(id) :
                   /\ \A w \in RecognisedValues(id) : w <= v
                   /\ cpp.n * v = Spend(id) * cpp.d

\* spend 0 with a recognised action of value 0 and an action of another type
C15_Witness ==
  \E r \in Runs :
    /\ <<1>> \in DOMAIN Metrics(r)
    /\ Metrics(r)[<<1>>] = Inf
    /\ Spend(<<1>>) = 0
    /\ RecognisedValues(<<1>>) = {0}
    /\ Len(Val(insights[<<1>>]).actions) = 2

\* C16: the outcome count that divides the spend is the largest value among
\* the recognised actions of the item, not their sum, and actions of other
\* types do not enter it.
C16_MaxNotSum ==
  \A r \in Runs : \A id \in DOMAIN Metrics(r) :
    (\E v \in RecognisedValues(id) : v > 0) =>
      /\ Metrics(r)[id].k = "num"
      /\ Metrics(r)[id].n = Spend(id)
      /\ Metrics(r)[id].d \in RecognisedValues(id)
      /\ \A v \in RecognisedValues(id) : v <= Metrics(r)[id].d

\* two recognised actions of values 1 and 2: the count is 2, not 3
C16_Witness ==
  \E r \in Runs :
    /\ <<1>> \in DOMAIN Metrics(r)
    /\ RecognisedValues(<<1>>) = {1, 2}
    /\ Spend(<<1>>) = 2
    /\ Metrics(r)[<<1>>] = Num(2, 2)

\* ------------------------------------------------- insights pagination
\* the entities of pages 1..n of the insights of a level, for run r
UpToPage(r, level, n) ==
  LET pages == InsightsPages(clean_ad_account_id(fetch[r].ad_account_id), level)
  IN {id \in Entities : \E i \in 1..n : \E j \in 1..Len(pages[i]) : pages[i][j] = id}

PageCount(r, level) ==
  Len(InsightsPages(clean_ad_account_id(fetch[r].ad_account_id), level))

CppOf(f, level) ==
  IF level = "campaign" THEN f.cpp_campaign_data ELSE f.cpp_adset_data

\* the mapping holds exactly the entities of pages 1..n, with their metrics
HoldsPages(r, f, level, n) ==
  /\ DOMAIN CppOf(f, level) = UpToPage(r, level, n)
  /\ \A id \in DOMAIN CppOf(f, level) :
       CppOf(f, level)[id] = ItemCpp(Val(insights[id]))

\* run r has left the insights loop of the level
PastLevel(f, level) ==
  \/ f.pc \in {"list", "build", "release"}
  \/ (f.pc = "insights" /\ level = "campaign" /\ f.level = "adset")

\* C17: while the loop of a level runs, request number p is for page p and
\* the mapping holds exactly pages 1..p-1; a successful request adds its page
\* and is followed by the request for the next page, or ends the loop when
\* there is none; a failed request ends the loop with the mapping unchanged.
\* After the loop the mapping holds exactly the pages before the failure.
C17_PartialPagesKept ==
  /\ [](\A r \in Runs : \A level \in {"campaign", "adset"} :
          /\ (fetch[r].pc = "insights" /\ fetch[r].level = level) =>
               /\ fetch[r].page \in 1..PageCount(r, level)
               /\ HoldsPages(r, fetch[r], level, fetch[r].page - 1)
          /\ PastLevel(fetch[r], level) =>
               \E n \in 0..PageCount(r, level) : HoldsPages(r, fetch[r], level, n))
  /\ [][\A r \in Runs :
          (fetch[r].pc = "insights" /\ fetch'[r] # fetch[r]) =>
            LET level == fetch[r].level
                p == fetch[r].page
            IN \/ /\ HoldsPages(r, fetch'[r], level, p)
                  /\ IF p < PageCount(r, level)
                       THEN /\ fetch'[r].pc = "insights" /\ fetch'[r].level = level
                            /\ fetch'[r].page = p + 1
                       ELSE PastLevel(fetch'[r], level)
               \/ /\ CppOf(fetch'[r], level) = CppOf(fetch[r], level)
                  /\ PastLevel(fetch'[r], level)]_vars

\* the second request of the campaign level failed: the loop is over and the
\* mapping holds the first page only
C17_Witness ==
  \E r \in Runs :
    /\ PageCount(r, "campaign") = 2
    /\ PastLevel(fetch[r], "campaign")
    /\ DOMAIN fetch[r].cpp_campaign_data = {<<1>>}
    /\ fetch[r].cpp_campaign_data[<<1>>] # Inf

\* ------------------------------------------------- upstream failures
\* some request of the campaign-level insights of run r failed: the loop is
\* over and the mapping lacks an entity that has an item
InsightsFailed(r) ==
  /\ PastLevel(fetch[r], "campaign")
  /\ ~HoldsPages(r, fetch[r], "campaign", PageCount(r, "campaign"))

ErrorResults ==
  {"invalid id", "account error", "listing error", "insights error", "exception"}

\* C18 as stated: a run in which an insights request or a listing request
\* failed dispatches no process_adsets task, issues no status write, and ends
\* with an error result.
C18_Original ==
  \A r \in Runs :
    (InsightsFailed(r) \/ fetch[r].result = "listing error") =>
      /\ task[r].pc = "idle"
      /\ writes[r] = <<>>
      /\ fetch[r].pc = "done" => fetch[r].result \in ErrorResults

\* ------------------------------------------------- input validation
\* the schedule of run r lacks the campaign code, the mode or the threshold
LacksField(r) ==
  /\ IsSome(fetch[r].matched_schedule)
  /\ LET sched == Val(fetch[r].matched_schedule)
     IN ~IsSome(sched.campaign_code) \/ ~IsSome(sched.on_off)
          \/ ~IsSome(sched.cpp_metric)

\* C19 as stated: a run whose schedule lacks a required field never takes a
\* lock, never makes a request to the platform, queues nothing and dispatches
\* nothing: it has returned as soon as it has started.
C19_Original ==
  /\ [](\A r \in Runs : LacksField(r) =>
          /\ fetch[r].pc = "done"
          /\ fetch[r].result \in ErrorResults
          /\ task[r].pc = "idle")
  /\ [][\A r \in Runs :
          (fetch[r].pc = "idle" /\ LacksField(r)')
            => (lockStore' = lockStore /\ pending' = pending)]_vars

\* the step in which run r starts with a missing or malformed account id
InvalidIdStep(r) ==
  fetch[r].pc = "idle" /\ fetch'[r].pc # "idle" /\ fetch'[r].ad_account_id = InvalidId

\* C20: a run given a missing or malformed account id returns its error in
\* its first step: the locks and the pending lists are as before, no request
\* was made, nothing is dispatched, and the run does nothing afterwards.
C20_InvalidIdRejected ==
  /\ [](\A r \in Runs :
          (fetch[r].pc # "idle" /\ fetch[r].ad_account_id = InvalidId) =>
            /\ fetch[r].pc = "done" /\ fetch[r].result = "invalid id"
            /\ fetch[r].token = NoToken
            /\ \A k \in LockKeys : lockStore[k] # r
            /\ fetch[r].cpp_campaign_data = <<>> /\ fetch[r].cpp_adset_data = <<>>
            /\ fetch[r].all_campaigns = <<>>
            /\ task[r].pc = "idle")
  /\ [](lockStore[InvalidId] = NoToken /\ pending[InvalidId] = <<>>)
  /\ [][\A r \in Runs :
          InvalidIdStep(r) =>
            UNCHANGED <<lockStore, pending, platStatus, writes, readback,
                        insights, task, camp, catalog>>]_vars

\* a run was rejected for its account id while another run held a lock and a
\* pending list was not empty
C20_Witness ==
  \E r, r2 \in Runs :
    /\ fetch[r].pc = "done" /\ fetch[r].result = "invalid id"
    /\ fetch[r].ad_account_id = InvalidId
    /\ lockStore["1"] = r2
    /\ fetch[r2].pc = "insights"
    /\ pending["1"] # <<>>

\* ------------------------------------------------- the name resolver
\* the dash-delimited segments of a name, normalised (lowercased, trimmed,
\* whitespace collapsed)
NormalisedSegments(campaign_name) ==
  LET split == str_split(campaign_name, "-")
  IN {normalize_name(split[k]) : k \in 1..Len(split)}

\* C21 as stated: for every campaign name the resolver examined, a component
\* is reported found exactly when the normalised expected component equals
\* the normalised form of some dash-delimited segment of the name.
C21_Original ==
  \A k \in 1..Len(loc.parsed) :
    LET e == loc.parsed[k]
        segments == NormalisedSegments(e.campaign_name)
    IN /\ e.result.page_name_found
            <=> normalize_name(e.expected.page_name) \in segments
       /\ e.result.item_name_found
            <=> normalize_name(e.expected.item_name) \in segments
       /\ e.result.campaign_code_found
            <=> normalize_name(e.expected.campaign_code) \in segments

\* ------------------------------------------------- zero matches
\* no campaign that run r listed has the campaign code of its schedule
NoCampaignMatches(r) ==
  /\ IsSome(fetch[r].matched_schedule)
  /\ IsSome(Val(fetch[r].matched_schedule).campaign_code)
  /\ \A i \in 1..Len(fetch[r].all_campaigns) :
       ~fetch_is_campaign_code_match(fetch[r].all_campaigns[i].name,
            Val(Val(fetch[r].matched_schedule).campaign_code))

\* the step in which run r filters the campaigns it listed and finds none
ZeroMatchStep(r) ==
  fetch[r].pc = "build" /\ fetch'[r].pc # "build" /\ NoCampaignMatches(r)

\* the last step of a run that found none
ZeroMatchRelease(r) ==
  fetch[r].pc = "release" /\ fetch[r].result = "no match" /\ fetch'[r].pc = "done"

\* the campaign that the location task matched has no ad set
MatchedCampaignWithoutAdsets ==
  IsSome(loc.campaign_id) /\ AdsetIdsOf(Val(loc.campaign_id), TRUE) = <<>>

\* no location name of the task is in a table
NoLocationKey ==
  /\ get_location_keys(loc.new_regions_city).region_keys = {}
  /\ get_location_keys(loc.new_regions_city).city_keys = {}

\* C22: a fetch_adsets run that finds no campaign with the campaign code ends
\* with the "no matching campaigns" message, dispatches no process_adsets task
\* and issues no status update; all it does afterwards is the release, which
\* frees the lock when the run still owns it.  A location task whose matched
\* campaign has no ad set, or whose location names give no key, ends with the
\* message of that failure as its last message and has issued no targeting
\* update.
C22_ZeroMatchTerminal ==
  /\ [](\A r \in Runs :
          fetch[r].result = "no match" => (task[r].pc = "idle" /\ writes[r] = <<>>))
  /\ [][\A r \in Runs :
          /\ ZeroMatchStep(r) =>
               /\ fetch'[r].result = "no match" /\ fetch'[r].pc = "release"
               /\ UNCHANGED <<task, writes, platStatus, lockStore, pending>>
          /\ ZeroMatchRelease(r) =>
               /\ lockStore' = IF HoldsLock(r)
                                 THEN [lockStore EXCEPT ![fetch[r].ad_account_id] = NoToken]
                                 ELSE lockStore
               /\ UNCHANGED <<task, writes, platStatus, pending>>]_vars
  /\ []((loc.pc = "done" /\ IsSome(loc.campaign_id)
           /\ (MatchedCampaignWithoutAdsets \/ NoLocationKey)) =>
          /\ loc.result \in {"no ad sets", "no location keys"}
          /\ MatchedCampaignWithoutAdsets => loc.result = "no ad sets"
          /\ loc.messages[Len(loc.messages)] = loc.result
          /\ loc.posts = <<>>)
  /\ [](loc.posts # <<>> => (~MatchedCampaignWithoutAdsets /\ ~NoLocationKey))

\* a run listed the campaign of account 1, found no match and has released
\* its lock; the location task found the ad set of its campaign and no key
C22_Witness ==
  \E r \in Runs :
    /\ fetch[r].pc = "done" /\ fetch[r].result = "no match"
    /\ Len(fetch[r].all_campaigns) = 1
    /\ lockStore[fetch[r].ad_account_id] = NoToken
    /\ task[r].pc = "idle"
    /\ loc.pc = "done" /\ loc.result = "no location keys"
    /\ loc.ad_set_ids # <<>> /\ loc.posts = <<>>

\* ------------------------------------------------- mode OFF
\* the mode of a schedule is OFF, in any case of the letters
ModeIsOff(schedule_data) ==
  /\ IsSome(schedule_data)
  /\ IsSome(Val(schedule_data).on_off)
  /\ str_upper(Val(Val(schedule_data).on_off)) = OFF

\* C23: a process_adsets task and a process_scheduled_campaigns task whose
\* schedule has mode OFF send no status update with value ACTIVE, and no
\* status recorded in their snapshots becomes ACTIVE, for every metric,
\* threshold and current status.
C23_OffNeverActivates ==
  /\ [](\A r \in Runs :
          ModeIsOff(task[r].schedule_data) =>
            \A i \in 1..Len(writes[r]) : writes[r][i].status # ACTIVE)
  /\ [](ModeIsOff(camp.schedule_data) =>
          \A i \in 1..Len(writes[RunCampaigns]) :
            writes[RunCampaigns][i].status # ACTIVE)
  /\ [][/\ \A r \in Runs :
            ModeIsOff(task[r].schedule_data) =>
              \A ci \in 1..Len(task[r].campaigns_data) :
                \A ai \in 1..Len(task[r].campaigns_data[ci].ADSETS) :
                  task'[r].campaigns_data[ci].ADSETS[ai].STATUS = ACTIVE
                    => task[r].campaigns_data[ci].ADSETS[ai].STATUS = ACTIVE
        /\ ModeIsOff(camp.schedule_data) =>
             \A i \in 1..Len(camp.campaign_data) :
               camp'.campaign_data[i].STATUS = ACTIVE
                 => camp.campaign_data[i].STATUS = ACTIVE]_vars

\* mode "Off", a paused ad set whose metric 1/2 is below the threshold 1: the
\* task has ended and has sent nothing
C23_Witness ==
  \E r \in Runs :
    /\ task[r].pc = "done" /\ task[r].result = "summary"
    /\ Val(Val(task[r].schedule_data).on_off) = <<"O","f","f">>
    /\ task[r].total_processed = 1
    /\ Spend(<<1, 1>>) = 1 /\ OutcomeCount(<<1, 1>>) = 2
    /\ ThresholdOf(r) = ThrDen
    /\ task[r].campaigns_data[1].ADSETS[1].STATUS = PAUSED
    /\ writes[r] = <<>>

\* ------------------------------------------------- the pending queue
\* C24 as stated: the pending list of an account that holds a deferred
\* schedule is drained: every schedule in it is eventually removed.
C24_Original ==
  \A k \in LockKeys : (pending[k] # <<>>) ~> (pending[k] = <<>>)

\* ------------------------------------------------- metrics not fetched
\* run r fetched an insights item of ad set id
FetchedRow(r, id) == id \in DOMAIN fetch[r].cpp_adset_data

\* C25 as stated: an ad set holds the "no qualifying outcomes" metric in the
\* snapshot of a run only if the run fetched an insights item of it and the
\* item shows no outcome, and a run pauses no ad set whose item it did not
\* fetch.
C25_Original ==
  \A r \in Runs :
    /\ \A ci \in 1..Len(task[r].dispatched_data) :
         \A ai \in 1..Len(task[r].dispatched_data[ci].ADSETS) :
           LET adset == task[r].dispatched_data[ci].ADSETS[ai]
           IN IsInf(adset.CPP) => (FetchedRow(r, adset.id) /\ OutcomeCount(adset.id) = 0)
    /\ \A i \in 1..Len(writes[r]) :
         writes[r][i].status = PAUSED => FetchedRow(r, writes[r][i].id)

\* ------------------------------------------------- the keys of an account
\* run r has started with a valid account id
Started(r) == fetch[r].pc # "idle" /\ fetch[r].ad_account_id # InvalidId

\* C26 as stated: two runs for the same account, however the triggers wrote
\* its id, use the same lock key and the same pending list, so they never own
\* a lock at the same time.
C26_Original ==
  \A r1, r2 \in Runs :
    (r1 # r2 /\ Started(r1) /\ Started(r2) /\ AccountOf(r1) = AccountOf(r2)) =>
      /\ fetch[r1].ad_account_id = fetch[r2].ad_account_id
      /\ ~(HoldsLock(r1) /\ HoldsLock(r2))

\* ------------------------------------------------- the code-only resolver
\* the code, without its non-alphanumeric characters and in lower case, is a
\* non-empty substring of the name normalised the same way
MatchesCode(campaign_name, campaign_code) ==
  /\ normalize_campaign_code(campaign_code) # <<>>
  /\ IsSubstring(normalize_campaign_code(campaign_code),
                 normalize_campaign_code(campaign_name))

\* the campaign code of the schedule of run r
ScheduleCode(r) == Val(Val(fetch[r].matched_schedule).campaign_code)

\* run r has filtered the campaigns it listed
Filtered(r) ==
  fetch[r].pc \in {"release", "done"} /\ fetch[r].result \in {"fetched", "no match"}

\* C27 as stated: the filter of fetch_adsets keeps exactly the listed
\* campaigns whose name matches the code in that sense, and process_adsets
\* decides ad sets of such campaigns only; a schedule whose code normalises to
\* the empty string selects no campaign: nothing is dispatched and no status
\* update is sent.
C27_Original ==
  \A r \in Runs :
    /\ Filtered(r) =>
         /\ [i \in 1..Len(task[r].dispatched_data) |->
               task[r].dispatched_data[i].id]
              = LET kept == SelectSeq(fetch[r].all_campaigns,
                               LAMBDA c : MatchesCode(c.name, ScheduleCode(r)))
                IN [i \in 1..Len(kept) |-> kept[i].id]
         /\ normalize_campaign_code(ScheduleCode(r)) = <<>> =>
              (task[r].pc = "idle" /\ writes[r] = <<>>)
    /\ (task[r].pc \notin {"idle", "queued"} /\ task[r].ai >= 1) =>
         MatchesCode(task[r].campaigns_data[task[r].ci].campaign_name, CurCode(r))

\* ------------------------------------------------- the order of the steps
\* the position of run r in fetch_adsets: 0 before its start, 1 with the lock
\* acquired and the account check ahead, 2 and 3 in the campaign-level and the
\* ad-set-level metrics, 4 in the listing, 5 at the filter, 6 at the release,
\* 7 returned; 8 stands for the deferral
FetchStage(f) ==
  IF f.pc = "idle" THEN 0
  ELSE IF f.pc = "verify" THEN 1
  ELSE IF f.pc = "insights" THEN (IF f.level = "campaign" THEN 2 ELSE 3)
  ELSE IF f.pc = "list" THEN 4
  ELSE IF f.pc = "build" THEN 5
  ELSE IF f.pc = "release" THEN 6
  ELSE IF f.pc = "done" THEN 7
  ELSE 8

\* the steps of fetch_adsets in their order: each stage is followed by itself
\* (another page), by the next one, or by the release on a failure
FetchOrder(s, t) ==
  \/ s = 0 /\ t \in {1, 7, 8}
  \/ s = 8 /\ t = 7
  \/ s = 1 /\ t \in {2, 6}
  \/ s = 2 /\ t \in {2, 3}
  \/ s = 3 /\ t \in {3, 4}
  \/ s = 4 /\ t \in {4, 5, 6}
  \/ s = 5 /\ t = 6
  \/ s = 6 /\ t = 7

\* the steps of process_adsets in their order
TaskOrder(s, t) ==
  \/ s = "idle" /\ t = "queued"
  \/ s = "queued" /\ t \in {"loop", "done"}
  \/ s = "loop" /\ t \in {"loop", "update", "done"}
  \/ s = "update" /\ t \in {"verify", "backoff", "loop"}
  \/ s = "verify" /\ t \in {"backoff", "loop"}
  \/ s = "backoff" /\ t = "update"

\* run r has made no request for metrics or campaigns
NothingFetched(r) ==
  /\ fetch[r].cpp_campaign_data = <<>> /\ fetch[r].cpp_adset_data = <<>>
  /\ fetch[r].all_campaigns = <<>>
  /\ FetchStage(fetch[r]) \notin {2, 3, 4, 5}

\* C28: the steps of a run follow the order lock, account check, campaign
\* metrics, ad-set metrics, listing, filter, decisions and status updates,
\* summary.  A decision or a status update comes only after the account check
\* succeeded, both metric fetches ended and the listing was completed; the
\* deferred result comes from the start only, with nothing fetched; a failed
\* account check is followed by the release alone.  After the summary no
\* status update is sent.
C28_StepOrder ==
  /\ [](\A r \in Runs :
          /\ (task[r].pc # "idle" \/ writes[r] # <<>>) =>
               /\ FetchStage(fetch[r]) \in {6, 7}
               /\ fetch[r].result \in {"fetched", "LockNotOwnedError"}
               /\ fetch[r].level = "adset"
               /\ [i \in 1..Len(fetch[r].all_campaigns) |-> fetch[r].all_campaigns[i].id]
                    = LevelIds(AccountOf(r), "campaign")
          /\ writes[r] # <<>> => task[r].pc \notin {"idle", "queued"}
          /\ fetch[r].result = "deferred" => (fetch[r].pc = "done" /\ NothingFetched(r)
                                               /\ fetch[r].token = NoToken)
          /\ fetch[r].result = "account error" =>
               (FetchStage(fetch[r]) \in {6, 7} /\ NothingFetched(r)))
  /\ [][\A r \in Runs :
          /\ fetch'[r] # fetch[r] =>
               FetchOrder(FetchStage(fetch[r]), FetchStage(fetch'[r]))
          /\ task'[r].pc # task[r].pc => TaskOrder(task[r].pc, task'[r].pc)
          /\ (task[r].pc = "idle" /\ task'[r].pc = "queued") =>
               FetchStage(fetch[r]) = 5
          /\ writes'[r] # writes[r] => task[r].pc = "update"
          /\ (FetchStage(fetch'[r]) = 8 /\ fetch'[r] # fetch[r]) =>
               (FetchStage(fetch[r]) = 0 /\ NothingFetched(r))
          /\ task[r].pc = "done" => (task'[r] = task[r] /\ writes'[r] = writes[r])]_vars

\* a run went through every step: it has returned, its task has sent a status
\* update and has ended with the summary
C28_Witness ==
  \E r \in Runs :
    /\ fetch[r].pc = "done" /\ fetch[r].result = "fetched"
    /\ task[r].pc = "done" /\ task[r].result = "summary"
    /\ writes[r] # <<>>
    /\ DOMAIN fetch[r].cpp_adset_data # {}

\* ------------------------------------------------- one threshold
\* C29 as stated: the decisions of both levels compare the metric with the
\* threshold of the schedule: it is the value that process_adsets and
\* process_scheduled_campaigns hold while they decide, and a campaign whose
\* metric is below it is classified as below (ACTIVE in mode ON, unchanged in
\* mode OFF), also when the metric is above the whole part of the threshold.
C29_Original ==
  /\ [](\A r \in Runs :
          task[r].pc \in {"loop", "update", "verify", "backoff"} =>
            task[r].cpp_metric = ThresholdOf(r))
  /\ [](camp.pc = "loop" => camp.cpp_metric = CampaignThreshold)
  /\ [][(CampaignStep /\ OutcomeCount(CampaignInfo.id) > 0
           /\ Spend(CampaignInfo.id) * ThrDen
                < CampaignThreshold * OutcomeCount(CampaignInfo.id)) =>
          LET mode == Val(Val(camp.schedule_data).on_off)
          IN /\ mode = ON => CampaignTarget(ACTIVE)
             /\ mode = OFF => CampaignUnchanged]_vars

\* ------------------------------- process_scheduled_campaigns, failures
\* C30 as stated: process_scheduled_campaigns always ends with a returned
\* message, never with an exception, whatever the schedule lacks; and the
\* stored entry takes the Success status only when a status was updated.
C30_Original ==
  /\ [](camp.pc = "done" => camp.result # "raised")
  /\ [][(PSC_Finish /\ camp'.entry # camp.entry) => camp.update_success]_vars

\* ------------------------------------------- the result of the resolver
\* the listing that the resolver of the task asks for, and the number of the
\* three expected components found in the name at position k of it
Listing == CampaignsOf("1")

FoundIn(k) ==
  parse_campaign_name_flexible(Listing[k].name, str_strip(str_lower(loc.page_name)),
     str_strip(str_lower(loc.item_name)), str_strip(loc.campaign_code))

MatchCount(k) == MatchScore(FoundIn(k))

FullMatches == {k \in 1..Len(Listing) : MatchCount(k) = 3}

ComponentMissing ==
  \/ str_strip(loc.page_name) = <<>>
  \/ str_strip(loc.item_name) = <<>>
  \/ str_strip(loc.campaign_code) = <<>>

\* the earliest position among those with the highest count, when that count
\* is at least 1
Candidates ==
  {k \in 1..Len(Listing) :
     /\ MatchCount(k) >= 1
     /\ \A j \in 1..Len(Listing) : MatchCount(j) <= MatchCount(k)}

Earliest(ks) == CHOOSE k \in ks : \A j \in ks : k <= j

\* the answer for a listing that was obtained
AnswerIs(found) ==
  IF ComponentMissing
    THEN found.campaign_id = None /\ found.scanned = 0
  ELSE IF FullMatches # {}
    THEN /\ found.campaign_id = Some(Listing[Earliest(FullMatches)].id)
         /\ found.scanned = Earliest(FullMatches)
  ELSE /\ found.campaign_id = None
       /\ found.scanned = Len(Listing)
       /\ found.best_match =
            IF Candidates = {} THEN None ELSE Some(Earliest(Candidates))

\* C31: once the search of the task has answered, either the listing request
\* failed and the answer is empty, or the answer is the id of the first listed
\* campaign in which all three components are found, with no campaign after
\* it examined; with no such campaign the answer is empty and the candidate of
\* the diagnostic is the earliest one with the highest count of found
\* components (at least 1); with an empty expected component the answer is
\* empty and no campaign is examined.
C31_FirstFullMatch ==
  IsSome(loc.found) =>
    \/ AnswerIs(Val(loc.found))
    \/ Val(loc.found) = [campaign_id |-> None, scanned |-> 0, best_match |-> None]

\* no campaign has all three components, two campaigns tie on the highest
\* count, and the first of them is the candidate
C31_Witness ==
  /\ IsSome(loc.found)
  /\ ~ComponentMissing /\ FullMatches = {}
  /\ Cardinality(Candidates) >= 2
  /\ Val(loc.found).scanned = Len(Listing)
  /\ Val(loc.found).best_match = Some(Earliest(Candidates))

\* --------------------------------------------- the frame of process_adsets
\* the snapshot of run r after a step is the one before it with status s for
\* the ad set at position p
SameBut(r, p, s) ==
  task'[r].campaigns_data =
    [task[r].campaigns_data EXCEPT ![p[1]].ADSETS[p[2]].STATUS = s]

\* the apply of run r for entity id succeeded with status s in this step: the
\* last update call of the run for it asked for s and was accepted, and the
\* status read back is s
ApplySucceeds(r, id, s) ==
  /\ WritesOf(r, id) # <<>>
  /\ LastWrite(r, id).ok /\ LastWrite(r, id).status = s
  /\ readback'[id] = s

\* everything of the snapshot but the statuses of the ad sets is as given
MetricsAsGiven(r) ==
  /\ Len(task[r].campaigns_data) = Len(task[r].dispatched_data)
  /\ \A ci \in 1..Len(task[r].dispatched_data) :
       LET given == task[r].dispatched_data[ci]
           left == task[r].campaigns_data[ci]
       IN /\ left.id = given.id /\ left.campaign_name = given.campaign_name
          /\ left.STATUS = given.STATUS /\ left.CPP = given.CPP
          /\ Len(left.ADSETS) = Len(given.ADSETS)
  /\ \A p \in Positions(r) :
       /\ LeftAdset(r, p).id = GivenAdset(r, p).id
       /\ LeftAdset(r, p).CPP = GivenAdset(r, p).CPP

\* C32: a run of process_adsets leaves the metrics, the names, the campaign
\* statuses and the shape of its snapshot as they were given; a step changes
\* the snapshot only by recording the target as the STATUS of the one ad set
\* whose apply succeeded in that step (so an ad set with no decision, with a
\* target equal to its status or with a failed apply keeps its status); and
\* every decision is the one that the rules give for the metric of the ad set
\* in the snapshot as given.
C32_OnlySucceededStatus ==
  /\ [](\A r \in Runs : task[r].pc # "idle" => MetricsAsGiven(r))
  /\ [][\A r \in Runs : task[r].pc # "idle" =>
          /\ task'[r].campaigns_data # task[r].campaigns_data =>
               \E p \in Positions(r) :
                 /\ p = <<task[r].ci, task[r].ai>>
                 /\ IsSome(task[r].target_status)
                 /\ SameBut(r, p, Val(task[r].target_status))
                 /\ ApplySucceeds(r, GivenAdset(r, p).id, Val(task[r].target_status))
          /\ DecideStep(r) =>
               LET p == <<task'[r].ci, task'[r].ai>>
                   dec == AdsetDecision(GivenAdset(r, p).CPP, Decided(r).STATUS,
                             task[r].on_off, task[r].cpp_metric, task[r].target_status)
               IN /\ dec.kind = "target" => YieldsTarget(r, dec.target)
                  /\ dec.kind = "continue" => NoDecision(r)]_vars

\* a finished run that recorded a new status for one ad set and left the
\* status of another, whose apply failed, as it was
C32_Witness ==
  \E r \in Runs :
    /\ task[r].pc = "done" /\ task[r].result = "summary"
    /\ \E p \in Positions(r), q \in Positions(r) :
         /\ LeftAdset(r, p).STATUS # GivenAdset(r, p).STATUS
         /\ ApplyFailed(r, q)

\* ------------------------------------------------- progress messages
\* the messages that run r appended after the one announcing its start
AfterStart(r) == Tail(fetch[r].messages)

\* C33 as stated: a run that has become Deferred, Failed or done with its
\* fetch phase has appended a message for its user on that transition, that
\* is, at least one message after the one announcing its start.
C33_Original ==
  \A r \in Runs :
    fetch[r].result # "" => fetch[r].messages # <<>> /\ AfterStart(r) # <<>>

\* ------------------------------------------------- release by the owner
\* the step in which run r performs the release at its end
ReleaseStep(r) == fetch[r].pc = "release" /\ fetch'[r].pc = "done"

\* the lock of run r expired and another run holds the key now
Superseded(r) ==
  /\ fetch[r].token # NoToken
  /\ lockStore[fetch[r].ad_account_id] \notin {NoToken, fetch[r].token}

\* C34: the release of a run frees the key when the key still holds the
\* token of that run and leaves the store as it is otherwise, so the lock
\* that run B acquired after the lock of run A expired survives the release
\* of A; the token of B leaves the key only by the release of B or by the
\* expiry of the key; and a run that starts while the key holds a token
\* acquires nothing.
C34_ReleaseByOwnerOnly ==
  [][/\ \A r \in Runs : ReleaseStep(r) =>
          LET key == fetch[r].ad_account_id
          IN IF lockStore[key] = fetch[r].token
               THEN lockStore' = [lockStore EXCEPT ![key] = NoToken]
               ELSE lockStore' = lockStore
     /\ \A k \in LockKeys, b \in Runs :
          (lockStore[k] = b /\ lockStore'[k] # b) =>
            /\ lockStore'[k] = NoToken
            /\ (ReleaseStep(b) /\ fetch[b].ad_account_id = k) \/ LockExpire(k)
     /\ \A r \in Runs :
          (BeginStep(r) /\ lockStore[fetch'[r].ad_account_id] # NoToken) =>
            (fetch'[r].pc = "enqueue" /\ lockStore' = lockStore)]_vars

\* run A has performed its release after run B took the expired lock, and
\* the key still holds the token of B, which is still running
C34_Witness ==
  \E a \in Runs, b \in Runs :
    /\ a # b
    /\ fetch[a].pc = "done" /\ fetch[a].result = "LockNotOwnedError"
    /\ fetch[b].ad_account_id = fetch[a].ad_account_id
    /\ InLockedSection(b) /\ HoldsLock(b)

====
